---- MODULE Spec2Model ----
(***************************************************************************)
(* Client-side cache synchronisation of the dating app: message caches     *)
(* patched by SendMessage and by the per-conversation realtime channel,    *)
(* offset pagination, like / unlike mutations, realtime invalidation,      *)
(* subscription lifecycle and the smart (fallback) hooks.                  *)
(***************************************************************************)
EXTENDS Integers, Sequences, FiniteSets, TLC

\* ------------------------------------------------------------------ bounds
MaxMsgs == 3          \* rows the remote messages table ever receives
MsgPageSize == 2      \* pageSize passed to useMatchMessagesPaginated
MaxUnderflow == 1     \* how far below zero a page's totalLoaded is followed
MaxRecipeMsgs == 2    \* rows of the table when the channel handler is exercised
RecipePageSize == 1   \* pageSize when the channel handler is exercised

\* ------------------------------------------------------------------- state
VARIABLES
  msgStore,     \* remote messages table of the open match, oldest first
  events,       \* change-feed events the channel may (re)deliver
  pendingSend,  \* rows returned by SendMessage's insert, onSuccess not yet run
  paginated,    \* cache entry ['match-messages-paginated', matchId]
  flat,         \* cache entry ['match-messages', matchId]
  inflight,     \* page fetch of the infinite query that has not resolved yet
  lastEvent,    \* the event the channel handler processed in the last step
  delivered,    \* <<id, path>> for every insert recipe that has run
  msgIssued,    \* rows the remote table has received so far
  msgPageSize,   \* the pageSize argument of the paginated message hook
  discCandidates,  \* the listing the remote query selects, newest first
  discPageSize,    \* the pageSize argument of useDiscoverProfilesPaginated
  discPages,        \* pages held by ['discover-profiles-paginated', filters, userId]
  stale,        \* keys marked invalidated and not refetched since
  rtUser,      \* userId the consolidated channel was created for
  lastRt,       \* the change event its handlers processed last
  likeRows,     \* rows of the likes table with liker Viewer, counted per liked id
  remoteMatch,  \* per profile: the matches row with Viewer and its messages
  likeCall,     \* the LikeProfile mutations
  unlikeCall,    \* the UnlikeProfile mutation
  discovered,   \* profile store: the discovered-profiles working set
  selectedChatMatch,  \* UI store: profile of the selected conversation
  hook,        \* per hook instance: mounted, deps, subscriptionRef, effect phase
  channels,     \* every channel created so far, in creation order
  smart,       \* per smart hook instance: primary error, state flag, last result
  query,       \* per query hook: identity present, status, the running fetch
  listing,      \* cached data of every discovery query key
  markPending,   \* MarkMessagesAsRead has written, its onSuccess has not run yet
  chatMessage,   \* Matches page: the text in the message input
  pageUser,   \* Matches page: user?.id from the auth context
  sendCall,   \* Matches page: the handleSendMessage call awaiting sendMessage.mutateAsync
  discCall,   \* the running discovery query function and the profile store flags it sets
  sendTrace,   \* history: the paginated cache when the last SendMessage started and when its recipe ran
  matches,   \* Matches page: the useMatches query as the page reads it
  markIssuedFor,   \* ids of the messages in the table when MarkMessagesAsRead was last issued
  currentProfileIndex,   \* Discover page: index of the displayed profile, from 0
  pageLiked,   \* profiles liked on the page that the listing still holds
  discoverAct   \* the last pass or like of the page and the profile that followed the displayed one

msgVars == <<msgStore, events, pendingSend, paginated, flat, inflight,
             lastEvent, delivered, msgIssued, msgPageSize>>
pageVars == <<discCandidates, discPageSize, discPages>>
rtVars == <<rtUser, lastRt>>
likeVars == <<likeRows, remoteMatch, likeCall, unlikeCall, discovered,
             selectedChatMatch>>
subVars == <<hook, channels>>
smartVars == <<smart>>
queryVars == <<query>>
passVars == <<listing>>
markVars == <<markPending>>
composeVars == <<chatMessage, pageUser, sendCall>>
discVars == <<discCall>>
traceVars == <<sendTrace>>
matchesVars == <<matches, markIssuedFor>>
discoverPageVars == <<currentProfileIndex, pageLiked, discoverAct>>

vars == <<msgVars, pageVars, stale, rtVars, likeVars, subVars, smartVars,
          queryVars, passVars,
          markVars,
          composeVars,
          discVars,
          traceVars,
          matchesVars,
          discoverPageVars>>

\* what the operations of one component leave alone
MsgFrame == UNCHANGED <<pageVars, rtVars, likeVars, subVars, smartVars,
    queryVars, passVars,
    markVars,
    composeVars,
    discVars,
    traceVars,
    matchesVars,
    discoverPageVars>>
PageFrame == UNCHANGED <<msgVars, stale, rtVars, likeVars, subVars, smartVars,
    queryVars, passVars,
    markVars,
    composeVars,
    discVars,
    traceVars,
    matchesVars,
    discoverPageVars>>
RtFrame == UNCHANGED <<msgVars, pageVars, likeVars, subVars, smartVars,
    queryVars, passVars,
    markVars,
    composeVars,
    discVars,
    traceVars,
    matchesVars,
    discoverPageVars>>
LikeFrame == UNCHANGED <<msgVars, pageVars, rtVars, subVars, smartVars,
    queryVars, passVars,
    markVars,
    composeVars,
    discVars,
    traceVars,
    matchesVars,
    discoverPageVars>>
SubFrame == UNCHANGED <<msgVars, pageVars, stale, rtVars, likeVars, smartVars,
    queryVars, passVars,
    markVars,
    composeVars,
    discVars,
    traceVars,
    matchesVars,
    discoverPageVars>>
SmartFrame == UNCHANGED <<msgVars, pageVars, stale, rtVars, likeVars, subVars,
    queryVars, passVars,
    markVars,
    composeVars,
    discVars,
    traceVars,
    matchesVars,
    discoverPageVars>>
QueryFrame == UNCHANGED <<msgVars, pageVars, stale, rtVars, likeVars, subVars,
    smartVars, passVars,
    markVars,
    composeVars,
    discVars,
    traceVars,
    matchesVars,
    discoverPageVars>>
PassFrame == UNCHANGED <<msgVars, pageVars, stale, rtVars, likeVars, subVars,
    smartVars, queryVars,
    markVars,
    composeVars,
    discVars,
    traceVars,
    matchesVars,
    discoverPageVars>>
MarkFrame == UNCHANGED <<pageVars, rtVars, likeVars, subVars, smartVars,
    queryVars, passVars,
    composeVars,
    discVars,
    traceVars,
    matchesVars,
    discoverPageVars>>
ComposeFrame == UNCHANGED <<pageVars, rtVars, likeVars, subVars, smartVars,
    queryVars, passVars, markVars,
    discVars,
    traceVars,
    matchesVars,
    discoverPageVars>>
DiscFrame == UNCHANGED <<msgVars, pageVars, stale, rtVars, subVars, smartVars,
    queryVars, passVars, markVars, composeVars,
    traceVars,
    matchesVars,
    discoverPageVars>>
TraceFrame == UNCHANGED <<pageVars, rtVars, likeVars, subVars, smartVars,
    queryVars, passVars, markVars, composeVars, discVars,
    matchesVars,
    discoverPageVars>>
MatchesFrame == UNCHANGED <<pageVars, rtVars, subVars, smartVars, queryVars,
    passVars, discVars, traceVars,
    discoverPageVars>>
DiscoverPageFrame == UNCHANGED <<msgVars, pageVars, rtVars, subVars, smartVars,
    queryVars, markVars, composeVars, discVars, traceVars, matchesVars>>


NoPage == -1                                   \* nextPage: undefined
NoEvent == [type |-> "NONE", msg |-> [id |-> 0, created_at |-> 0, read |-> FALSE]]
NoFetch == [active |-> FALSE, pages |-> <<>>, pageParams |-> <<>>]
NoPaginated == [has |-> FALSE, pages |-> <<>>, pageParams |-> <<>>]   \* undefined
NoFlat == [has |-> FALSE, messages |-> <<>>]                         \* undefined

\* a row of the messages table; the remote store assigns id and created_at
Message(i, v) == [id |-> i, created_at |-> i, read |-> v]

\* ---------------------------------------------------------- array helpers
RECURSIVE Reverse(_)
Reverse(s) == IF s = <<>> THEN <<>> ELSE Append(Reverse(Tail(s)), Head(s))

RECURSIVE Filter(_, _)
Filter(s, id) ==
  IF s = <<>> THEN <<>>
  ELSE IF Head(s).id # id THEN <<Head(s)>> \o Filter(Tail(s), id)
       ELSE Filter(Tail(s), id)

RECURSIVE FlatMapMessages(_)
FlatMapMessages(pages) ==
  IF pages = <<>> THEN <<>>
  ELSE Head(pages).messages \o FlatMapMessages(Tail(pages))

Find(s, id) == \E i \in 1..Len(s) : s[i].id = id

MapReplace(s, m) == [i \in 1..Len(s) |-> IF s[i].id = m.id THEN m ELSE s[i]]

Count(s, id) == Cardinality({i \in 1..Len(s) : s[i].id = id})

\* rows [from, to] (inclusive, zero based) of an ordered result
Range(s, from, to) ==
  IF from >= Len(s) THEN <<>>
  ELSE SubSeq(s, from + 1, IF to + 1 > Len(s) THEN Len(s) ELSE to + 1)

\* ============================================================ query cache keys
Users == {"u1", "u2"}
Filters == {"f1", "f2"}

\* the query keys the hooks register, one per parameter value
CacheKeys ==
  {<<"matches", u>> : u \in Users} \cup
  {<<"match-count", u>> : u \in Users} \cup
  {<<"unread-message-count", u>> : u \in Users} \cup
  {<<"unread-notification-count", u>> : u \in Users} \cup
  {<<"liked-profiles", u>> : u \in Users} \cup
  {<<"last-messages", "matchIds">>, <<"last-messages-optimized", "matchIds">>} \cup
  {<<"discover-profiles", f, u>> : f \in Filters, u \in Users} \cup
  {<<"discover-profiles-paginated", f, u>> : f \in Filters, u \in Users} \cup
  {<<"discover-profiles-optimized", f, u>> : f \in Filters, u \in Users}


\* queryKey matching of invalidateQueries: the filter key is a prefix of the
\* query's key, element by element
PartialMatchKey(queryKey, filterKey) ==
  /\ Len(filterKey) <= Len(queryKey)
  /\ \A i \in 1..Len(filterKey) : queryKey[i] = filterKey[i]

InvalidateQueries(filterKey) == {k \in CacheKeys : PartialMatchKey(k, filterKey)}

\* an invalidated query is fetched again and is fresh
QueryRefetched(k) ==
  /\ k \in stale
  /\ stale' = stale \ {k}

\* useSendMessage.onSuccess: the keys invalidated
SendOnSuccessInvalidations == InvalidateQueries(<<"matches">>)

\* useMessagesRealtime handler: the keys invalidated after the cache recipes
MessagesInvalidations(eventType) ==
  InvalidateQueries(<<"matches">>) \cup
  (IF eventType = "INSERT"
   THEN InvalidateQueries(<<"unread-message-count">>) \cup
        InvalidateQueries(<<"last-messages">>)
   ELSE {})

\* ------------------------------------------------- paginated message query
MessagesQueryFn(store, pageParam, pageSize) ==
  LET data == Range(Reverse(store), pageParam * pageSize,
                    (pageParam + 1) * pageSize - 1)
  IN [messages |-> Reverse(data),
      nextPage |-> IF Len(data) = pageSize THEN pageParam + 1 ELSE NoPage,
      hasMore |-> Len(data) = pageSize,
      totalLoaded |-> (pageParam + 1) * pageSize]

GetNextPageParam(pages) == pages[Len(pages)].nextPage

SmartData(cache) == IF cache.has THEN FlatMapMessages(cache.pages) ELSE <<>>

\* useMatchMessagesSmart: the totalLoaded it returns on the paginated branch
SmartTotalLoaded(cache) ==
  IF cache.has THEN Len(FlatMapMessages(cache.pages)) ELSE 0

\* ------------------------------------------------ SendMessage.onSuccess
SendPaginatedRecipeFirstPageOnly(old, newMessage) ==
  IF ~old.has \/ Len(old.pages) = 0
  THEN [has |-> TRUE,
        pages |-> <<[messages |-> <<newMessage>>, nextPage |-> NoPage,
                     hasMore |-> FALSE, totalLoaded |-> 1]>>,
        pageParams |-> <<0>>]
  ELSE IF Find(FlatMapMessages(old.pages), newMessage.id) THEN old
  ELSE [old EXCEPT !.pages =
          <<[old.pages[1] EXCEPT !.messages = Append(@, newMessage),
                                 !.totalLoaded = @ + 1]>>,
                   !.pageParams = <<old.pageParams[1]>>]

SendPaginatedRecipeLastPage(old, newMessage) ==
  IF ~old.has \/ Len(old.pages) = 0
  THEN [has |-> TRUE,
        pages |-> <<[messages |-> <<newMessage>>, nextPage |-> NoPage,
                     hasMore |-> FALSE, totalLoaded |-> 1]>>,
        pageParams |-> <<0>>]
  ELSE IF Find(FlatMapMessages(old.pages), newMessage.id) THEN old
  ELSE [old EXCEPT !.pages[Len(old.pages)] =
          [@ EXCEPT !.messages = Append(@, newMessage),
                    !.totalLoaded = @ + 1]]

SendPaginatedRecipe(old, newMessage) ==
  IF ~old.has \/ Len(old.pages) = 0
  THEN [has |-> TRUE,
        pages |-> <<[messages |-> <<newMessage>>, nextPage |-> NoPage,
                     hasMore |-> FALSE, totalLoaded |-> 1]>>,
        pageParams |-> <<0>>]
  ELSE IF Find(FlatMapMessages(old.pages), newMessage.id) THEN old
  ELSE [old EXCEPT !.pages[1] =
          [@ EXCEPT !.messages = Append(@, newMessage),
                    !.totalLoaded = @ + 1]]

SendFlatRecipe(old, newMessage) ==
  IF ~old.has THEN [has |-> TRUE, messages |-> <<newMessage>>]
  ELSE IF Find(old.messages, newMessage.id) THEN old
  ELSE [old EXCEPT !.messages = Append(@, newMessage)]

\* --------------------------------- useMessagesRealtime: INSERT / UPDATE / DELETE
InsertNoDedup(old, newMessage) ==
  IF ~old.has \/ Len(old.pages) = 0
  THEN [has |-> TRUE,
        pages |-> <<[messages |-> <<newMessage>>, nextPage |-> NoPage,
                     hasMore |-> FALSE, totalLoaded |-> 1]>>,
        pageParams |-> <<0>>]
  ELSE [old EXCEPT !.pages[1] =
          [@ EXCEPT !.messages = Append(@, newMessage),
                    !.totalLoaded = @ + 1]]

RtInsertPaginated(old, newMessage) ==
  IF ~old.has \/ Len(old.pages) = 0
  THEN [has |-> TRUE,
        pages |-> <<[messages |-> <<newMessage>>, nextPage |-> NoPage,
                     hasMore |-> FALSE, totalLoaded |-> 1]>>,
        pageParams |-> <<0>>]
  ELSE IF Find(FlatMapMessages(old.pages), newMessage.id) THEN old
  ELSE [old EXCEPT !.pages[1] =
          [@ EXCEPT !.messages = Append(@, newMessage),
                    !.totalLoaded = @ + 1]]

RtInsertFlat(old, newMessage) ==
  IF ~old.has THEN [has |-> TRUE, messages |-> <<newMessage>>]
  ELSE IF Find(old.messages, newMessage.id) THEN old
  ELSE [old EXCEPT !.messages = Append(@, newMessage)]

RtUpdatePaginatedFirstPage(old, updatedMessage) ==
  IF ~old.has \/ Len(old.pages) = 0 THEN old
  ELSE [old EXCEPT !.pages[1].messages = MapReplace(@, updatedMessage)]

RtUpdatePaginated(old, updatedMessage) ==
  IF ~old.has THEN old
  ELSE [old EXCEPT !.pages =
          [p \in 1..Len(old.pages) |->
             [old.pages[p] EXCEPT !.messages = MapReplace(@, updatedMessage)]]]

RtUpdateFlat(old, updatedMessage) ==
  IF ~old.has THEN old
  ELSE [old EXCEPT !.messages = MapReplace(@, updatedMessage)]

RtDeletePaginated(old, deletedMessage) ==
  IF ~old.has THEN old
  ELSE [old EXCEPT !.pages =
          [p \in 1..Len(old.pages) |->
             [old.pages[p] EXCEPT !.messages = Filter(@, deletedMessage.id),
                                  !.totalLoaded = @ - 1]]]

\* a DELETE recipe of the flat cache that keeps the row
RtDeleteFlatKeeps(old, deletedMessage) ==
  IF ~old.has THEN old
  ELSE [old EXCEPT !.messages = @]

RtDeleteFlat(old, deletedMessage) ==
  IF ~old.has THEN old
  ELSE [old EXCEPT !.messages = Filter(@, deletedMessage.id)]

\* ------------------------------------------------ remote messages table
InitialStores(max) == {[i \in 1..k |-> Message(i, FALSE)] : k \in 0..max}

\* pages 0..j-1 of the infinite query over an unchanging store
RECURSIVE FetchedPages(_, _, _)
FetchedPages(store, j, pageSize) ==
  IF j = 0 THEN <<>>
  ELSE Append(FetchedPages(store, j - 1, pageSize),
              MessagesQueryFn(store, j - 1, pageSize))

\* ------------------------------------------------ message actions

\* useSendMessage.mutationFn: the remote insert; the row is returned and the
\* change feed will echo it
SendMessageInsert ==
  /\ LET m == Message(msgIssued + 1, FALSE) IN
       /\ msgStore' = Append(msgStore, m)
       /\ events' = events \cup {[type |-> "INSERT", msg |-> m]}
       /\ pendingSend' = pendingSend \cup {m}
  /\ msgIssued' = msgIssued + 1
  /\ lastEvent' = NoEvent
  /\ UNCHANGED <<paginated, flat, inflight, delivered, msgPageSize>>
  /\ UNCHANGED stale

SendMessageMutation == SendMessageInsert /\ MsgFrame

\* useSendMessage.onSuccess
SendOnSuccessRecipes(m) ==
  /\ m \in pendingSend
  /\ pendingSend' = pendingSend \ {m}
  /\ paginated' = SendPaginatedRecipe(paginated, m)
  /\ flat' = SendFlatRecipe(flat, m)
  /\ stale' = stale \cup SendOnSuccessInvalidations
  /\ delivered' = delivered \cup {<<m.id, "send">>}
  /\ lastEvent' = NoEvent
  /\ UNCHANGED <<msgStore, events, inflight, msgIssued, msgPageSize>>

SendOnSuccess(m) == SendOnSuccessRecipes(m) /\ MsgFrame

\* the same two steps of a send, with the cache each of them saw recorded
NoTrace == [atStart |-> NoPaginated, atApply |-> NoPaginated,
            started |-> FALSE, applied |-> FALSE]

TracedSendMessageMutation ==
  /\ pendingSend = {}
  /\ SendMessageInsert
  /\ sendTrace' = [atStart |-> paginated, atApply |-> NoPaginated,
                   started |-> TRUE, applied |-> FALSE]
  /\ TraceFrame

TracedSendOnSuccess(m) ==
  /\ SendOnSuccessRecipes(m)
  /\ sendTrace' = [sendTrace EXCEPT !.atApply = paginated, !.applied = TRUE]
  /\ TraceFrame

TraceInitIdle == sendTrace = NoTrace

\* the other party writes a row
RemoteInsert ==
  /\ LET m == Message(msgIssued + 1, FALSE) IN
       /\ msgStore' = Append(msgStore, m)
       /\ events' = events \cup {[type |-> "INSERT", msg |-> m]}
  /\ msgIssued' = msgIssued + 1
  /\ lastEvent' = NoEvent
  /\ UNCHANGED <<pendingSend, paginated, flat, inflight, delivered,
                 msgPageSize>>
  /\ UNCHANGED stale
  /\ MsgFrame

\* a row is marked read in the remote table
RemoteUpdate(i) ==
  /\ i \in 1..Len(msgStore)
  /\ ~msgStore[i].read
  /\ LET m == [msgStore[i] EXCEPT !.read = TRUE] IN
       /\ msgStore' = [msgStore EXCEPT ![i] = m]
       /\ events' = events \cup {[type |-> "UPDATE", msg |-> m]}
  /\ lastEvent' = NoEvent
  /\ UNCHANGED <<pendingSend, paginated, flat, inflight, delivered, msgIssued, msgPageSize>>
  /\ UNCHANGED stale
  /\ MsgFrame

\* a row is deleted from the remote table
RemoteDelete(i) ==
  /\ i \in 1..Len(msgStore)
  /\ msgStore' = Filter(msgStore, msgStore[i].id)
  /\ events' = events \cup {[type |-> "DELETE", msg |-> msgStore[i]]}
  /\ lastEvent' = NoEvent
  /\ UNCHANGED <<pendingSend, paginated, flat, inflight, delivered, msgIssued, msgPageSize>>
  /\ UNCHANGED stale
  /\ MsgFrame

\* useMessagesRealtime: the postgres_changes callback
MessagesChannelHandler(payload) ==
  /\ payload \in events
  /\ IF payload.type = "INSERT"
     THEN /\ paginated' = RtInsertPaginated(paginated, payload.msg)
          /\ flat' = RtInsertFlat(flat, payload.msg)
          /\ delivered' = delivered \cup {<<payload.msg.id, "realtime">>}
     ELSE IF payload.type = "UPDATE"
     THEN /\ paginated' = RtUpdatePaginated(paginated, payload.msg)
          /\ flat' = RtUpdateFlat(flat, payload.msg)
          /\ UNCHANGED delivered
     ELSE /\ \A p \in 1..Len(paginated.pages) :
                paginated.pages[p].totalLoaded > 0 - MaxUnderflow
          /\ paginated' = RtDeletePaginated(paginated, payload.msg)
          /\ flat' = RtDeleteFlat(flat, payload.msg)
          /\ UNCHANGED delivered
  /\ stale' = stale \cup MessagesInvalidations(payload.type)
  /\ lastEvent' = payload
  /\ UNCHANGED <<msgStore, events, pendingSend, inflight, msgIssued, msgPageSize>>
  /\ MsgFrame

\* useInfiniteQuery: the first page, or fetchNextPage while a next page exists
PaginatedFetchStart ==
  /\ ~inflight.active
  /\ IF ~paginated.has \/ Len(paginated.pages) = 0
     THEN inflight' = [active |-> TRUE,
                       pages |-> <<MessagesQueryFn(msgStore, 0, msgPageSize)>>,
                       pageParams |-> <<0>>]
     ELSE /\ GetNextPageParam(paginated.pages) # NoPage
          /\ inflight' =
               [active |-> TRUE,
                pages |-> Append(paginated.pages,
                                 MessagesQueryFn(msgStore,
                                    GetNextPageParam(paginated.pages),
                                    msgPageSize)),
                pageParams |-> Append(paginated.pageParams,
                                      GetNextPageParam(paginated.pages))]
  /\ lastEvent' = NoEvent
  /\ UNCHANGED <<msgStore, events, pendingSend, paginated, flat, delivered,
                 msgIssued, msgPageSize>>
  /\ UNCHANGED stale
  /\ MsgFrame

PaginatedFetchDone ==
  /\ inflight.active
  /\ paginated' = [has |-> TRUE, pages |-> inflight.pages,
                   pageParams |-> inflight.pageParams]
  /\ inflight' = NoFetch
  /\ lastEvent' = NoEvent
  /\ UNCHANGED <<msgStore, events, pendingSend, flat, delivered, msgIssued, msgPageSize>>
  /\ UNCHANGED stale
  /\ MsgFrame

\* useMatchMessages.queryFn: the whole conversation, oldest first
FlatFetch ==
  /\ ~flat.has
  /\ flat' = [has |-> TRUE, messages |-> msgStore]
  /\ lastEvent' = NoEvent
  /\ UNCHANGED <<msgStore, events, pendingSend, paginated, inflight,
                 delivered, msgIssued, msgPageSize>>
  /\ UNCHANGED stale
  /\ MsgFrame

\* ------------------------------------------------ MarkMessagesAsRead
\* the rows the update stamps: those of the match without read_at that the
\* other party sent
UnreadRows(store) == {i \in 1..Len(store) : ~store[i].read}

\* useMarkMessagesAsRead.onSuccess: the updater of ['match-messages', matchId]
MarkReadPatch(old) ==
  IF ~old.has THEN old
  ELSE [old EXCEPT !.messages =
          [i \in 1..Len(old.messages) |->
             [old.messages[i] EXCEPT !.read = (old.messages[i].read \/ TRUE)]]]

MarkReadOnSuccessInvalidations == InvalidateQueries(<<"matches">>)

\* useMarkMessagesAsRead.mutationFn: the update succeeds and the change feed
\* reports every row it stamped
MarkMessagesAsReadUpdate ==
  /\ ~markPending
  /\ \E fromOther \in SUBSET UnreadRows(msgStore) :
       /\ msgStore' = [i \in 1..Len(msgStore) |->
                         IF i \in fromOther
                         THEN [msgStore[i] EXCEPT !.read = TRUE]
                         ELSE msgStore[i]]
       /\ events' = events \cup
                    {[type |-> "UPDATE", msg |-> [msgStore[i] EXCEPT !.read = TRUE]] :
                       i \in fromOther}
  /\ markPending' = TRUE
  /\ lastEvent' = NoEvent
  /\ UNCHANGED <<pendingSend, paginated, flat, inflight, delivered, msgIssued,
                 msgPageSize>>
  /\ UNCHANGED stale

MarkMessagesAsReadMutation == MarkMessagesAsReadUpdate /\ MarkFrame

MarkReadOnSuccess ==
  /\ markPending
  /\ flat' = MarkReadPatch(flat)
  /\ stale' = stale \cup MarkReadOnSuccessInvalidations
  /\ markPending' = FALSE
  /\ lastEvent' = NoEvent
  /\ UNCHANGED <<msgStore, events, pendingSend, paginated, inflight, delivered,
                 msgIssued, msgPageSize>>
  /\ MarkFrame

MarkInitIdle == markPending = FALSE

\* the conversation as the client may find it: rows already in the table,
\* caches empty or filled by earlier fetches of that table
FetchedCaches(store, pageSize) ==
  {NoPaginated} \cup
  {[has |-> TRUE, pages |-> FetchedPages(store, j, pageSize),
    pageParams |-> [k \in 1..j |-> k - 1]] :
      j \in {n \in 1..(Len(store) \div pageSize + 1) :
               \A k \in 1..(n - 1) :
                 MessagesQueryFn(store, k - 1, pageSize).hasMore}}

MsgInitEmpty ==
  /\ msgPageSize = MsgPageSize
  /\ msgStore \in InitialStores(MaxMsgs)
  /\ msgIssued = Len(msgStore)
  /\ events = {}
  /\ pendingSend = {}
  /\ paginated = NoPaginated
  /\ flat = NoFlat
  /\ inflight = NoFetch
  /\ lastEvent = NoEvent
  /\ delivered = {}

MsgInitLoaded(pageSize, max) ==
  /\ msgPageSize = pageSize
  /\ msgStore \in InitialStores(max)
  /\ msgIssued = Len(msgStore)
  /\ events = {[type |-> "INSERT", msg |-> msgStore[i]] : i \in 1..Len(msgStore)}
  /\ pendingSend = {}
  /\ paginated \in FetchedCaches(msgStore, pageSize)
  /\ flat \in {NoFlat, [has |-> TRUE, messages |-> msgStore]}
  /\ inflight = NoFetch
  /\ lastEvent = NoEvent
  /\ delivered = {}

\* insert deliveries only: SendMessage completions and INSERT events
InsertNext ==
  \/ msgIssued < MaxMsgs /\ SendMessageMutation
  \/ \E m \in pendingSend : SendOnSuccess(m)
  \/ msgIssued < MaxMsgs /\ RemoteInsert
  \/ \E payload \in events : MessagesChannelHandler(payload)

\* the channel handler under remote inserts, updates and deletes
RecipeNext ==
  \/ msgIssued < MaxRecipeMsgs /\ RemoteInsert
  \/ \E i \in 1..Len(msgStore) : RemoteUpdate(i)
  \/ \E i \in 1..Len(msgStore) : RemoteDelete(i)
  \/ \E payload \in events : MessagesChannelHandler(payload)

\* the queries alone, over a table that other clients keep writing
FetchNext ==
  \/ msgIssued < MaxMsgs /\ RemoteInsert
  \/ \E i \in 1..Len(msgStore) : RemoteDelete(i)
  \/ PaginatedFetchStart
  \/ PaginatedFetchDone
  \/ FlatFetch

\* ============================================================ discovery pages
MaxRows == 25         \* candidate rows in the remote table
MaxPageSize == 10     \* largest pageSize argument tried



DiscoverRangeOverlap(pageParam, pageSize) ==
  <<pageParam * pageSize, (pageParam + 1) * pageSize>>

\* offset and limit handed to .range()
DiscoverRange(pageParam, pageSize) ==
  <<pageParam * pageSize, (pageParam + 1) * pageSize - 1>>

DiscoverQueryFnMoreIfAny(candidates, pageParam, pageSize) ==
  LET data == Range(candidates, pageParam * pageSize,
                    (pageParam + 1) * pageSize - 1)
  IN [profiles |-> data,
      nextPage |-> IF Len(data) > 0 THEN pageParam + 1 ELSE NoPage,
      hasMore |-> Len(data) > 0]

\* useDiscoverProfilesPaginated.queryFn
DiscoverQueryFn(candidates, pageParam, pageSize) ==
  LET r == DiscoverRange(pageParam, pageSize)
      data == Range(candidates, r[1], r[2])
  IN [profiles |-> data,
      nextPage |-> IF Len(data) = pageSize THEN pageParam + 1 ELSE NoPage,
      hasMore |-> Len(data) = pageSize]

\* the infinite query loads page 0, then getNextPageParam of the last page
DiscoverFetchPage ==
  /\ IF Len(discPages) = 0
     THEN discPages' = <<DiscoverQueryFn(discCandidates, 0, discPageSize)>>
     ELSE /\ discPages[Len(discPages)].nextPage # NoPage
          /\ discPages' = Append(discPages,
                 DiscoverQueryFn(discCandidates,
                                 discPages[Len(discPages)].nextPage,
                                 discPageSize))
  /\ UNCHANGED <<discCandidates, discPageSize>>
  /\ PageFrame

\* useDiscoverProfilesPaginatedSmart: data, the loaded pages flattened
RECURSIVE FlatMapProfiles(_)
FlatMapProfiles(pages) ==
  IF pages = <<>> THEN <<>>
  ELSE Head(pages).profiles \o FlatMapProfiles(Tail(pages))

PageInitIdle ==
  /\ discCandidates = <<>>
  /\ discPageSize = 1
  /\ discPages = <<>>

\* ================================================= per-user consolidated channel
EventTypes == {"INSERT", "UPDATE", "DELETE"}



NoRt == [table |-> "none", eventType |-> "none"]

DiscoveryListings ==
  InvalidateQueries(<<"discover-profiles">>) \cup
  InvalidateQueries(<<"discover-profiles-paginated">>) \cup
  InvalidateQueries(<<"discover-profiles-optimized">>)

MatchesInvalidationsAnyEvent(userId, eventType) ==
  InvalidateQueries(<<"matches">>) \cup
  InvalidateQueries(<<"match-count", userId>>) \cup
  InvalidateQueries(<<"unread-message-count", userId>>) \cup
  DiscoveryListings

\* keys the matches listener invalidates
MatchesInvalidations(userId, eventType) ==
  InvalidateQueries(<<"matches">>) \cup
  InvalidateQueries(<<"match-count", userId>>) \cup
  InvalidateQueries(<<"unread-message-count", userId>>) \cup
  (IF eventType = "INSERT"
   THEN InvalidateQueries(<<"discover-profiles">>) \cup
        InvalidateQueries(<<"discover-profiles-paginated">>) \cup
        InvalidateQueries(<<"discover-profiles-optimized">>)
   ELSE {})

\* keys the notifications listener invalidates
NotificationsInvalidations(userId) ==
  InvalidateQueries(<<"unread-notification-count", userId>>)

LikesInvalidationsMatchesOnly(userId) ==
  InvalidateQueries(<<"matches">>) \cup
  InvalidateQueries(<<"liked-profiles", userId>>)

\* keys the filtered likes listener invalidates
LikesInvalidations(userId) ==
  InvalidateQueries(<<"discover-profiles">>) \cup
  InvalidateQueries(<<"discover-profiles-paginated">>) \cup
  InvalidateQueries(<<"discover-profiles-optimized">>) \cup
  InvalidateQueries(<<"matches">>) \cup
  InvalidateQueries(<<"liked-profiles", userId>>)

\* a change of a matches row that involves rtUser
MatchesChange(eventType) ==
  /\ stale' = stale \cup MatchesInvalidations(rtUser, eventType)
  /\ lastRt' = [table |-> "matches", eventType |-> eventType]
  /\ UNCHANGED rtUser
  /\ RtFrame

\* a change of a notifications row addressed to rtUser
NotificationsChange(eventType) ==
  /\ stale' = stale \cup NotificationsInvalidations(rtUser)
  /\ lastRt' = [table |-> "notifications", eventType |-> eventType]
  /\ UNCHANGED rtUser
  /\ RtFrame

\* a change of a likes row that involves rtUser: the unfiltered listener logs,
\* the filtered listener invalidates
LikesChange(eventType) ==
  /\ stale' = stale \cup LikesInvalidations(rtUser)
  /\ lastRt' = [table |-> "likes", eventType |-> eventType]
  /\ UNCHANGED rtUser
  /\ RtFrame

\* a change of a likes row of other users: only the unfiltered listener runs
LikesChangeOfOthers(eventType) ==
  /\ lastRt' = [table |-> "likes-others", eventType |-> eventType]
  /\ UNCHANGED <<stale, rtUser>>
  /\ RtFrame

RtRefetch(k) ==
  /\ QueryRefetched(k)
  /\ lastRt' = NoRt
  /\ UNCHANGED rtUser
  /\ RtFrame

RtInitIdle ==
  /\ rtUser = "u1"
  /\ lastRt = NoRt

\* ============================================================ like and unlike
MaxLikeCalls == 2     \* LikeProfile mutations issued

Viewer == "u1"
Profiles == {"p1", "p2"}



IdleLike == [pc |-> "idle", profileId |-> "p1", result |-> "none",
             inserted |-> FALSE, failureCount |-> 0, writes |-> 0,
             writeFailed |-> FALSE]
IdleUnlike == [pc |-> "idle", profileId |-> "p1", matchExisted |-> FALSE,
               matchData |-> FALSE, rpcInvoked |-> FALSE,
               deletionError |-> FALSE, deleteIssued |-> FALSE,
               deleteError |-> FALSE, failureCount |-> 0,
               result |-> "none",
               before |-> [match |-> [exists |-> FALSE, messages |-> 0],
                           likes |-> 0]]
NoMatch == [exists |-> FALSE, messages |-> 0]
\* the UI store's selectedChatMatch: null, or the object the Matches page
\* passes to setSelectedChatMatch, an entry of transformedMatches; a property
\* that the object does not have reads as undefined
NoSelection == [matchId |-> "null", userId |-> "null",
                otherUserId |-> "undefined", otherProfile |-> "undefined"]
MatchIdOf(p) == IF p = "p1" THEN "m1" ELSE "m2"
TransformedMatch(p) == [matchId |-> MatchIdOf(p), userId |-> p,
                        otherUserId |-> "undefined",
                        otherProfile |-> "undefined"]

\* profile store: removeDiscoveredProfile(profileId)
RemoveDiscoveredProfile(set, profileId) == set \ {profileId}

\* useUnlikeProfile.onSuccess: the selected conversation is cleared when it is
\* with the unliked profile
ClearSelectedChatMatch(selected, profileId) ==
  LET isSelectedMatchBeingDeleted ==
        \/ selected.otherUserId = profileId
        \/ (selected.otherProfile # "undefined" /\
            selected.otherProfile = profileId)
  IN IF selected # NoSelection /\ isSelectedMatchBeingDeleted
     THEN NoSelection
     ELSE selected

\* queryClient defaultOptions.mutations.retry
MutationDefaultRetry(failureCount) ==
  IF failureCount < 1 THEN TRUE ELSE FALSE

\* useLikeProfile.onSuccess: the keys invalidated
LikeOnSuccessInvalidations ==
  InvalidateQueries(<<"discover-profiles">>) \cup
  InvalidateQueries(<<"matches">>) \cup
  InvalidateQueries(<<"liked-profiles">>)

\* useUnlikeProfile.onSuccess: the keys invalidated
UnlikeOnSuccessInvalidations ==
  InvalidateQueries(<<"liked-profiles">>) \cup
  InvalidateQueries(<<"matches">>) \cup
  InvalidateQueries(<<"discover-profiles">>)

\* mutate({profileId, userId: Viewer})
LikeStart(c, profileId) ==
  /\ likeCall[c].pc = "idle"
  /\ likeCall' = [likeCall EXCEPT ![c] = [@ EXCEPT !.pc = "checking",
                                                   !.profileId = profileId]]
  /\ UNCHANGED <<likeRows, remoteMatch, unlikeCall, stale, discovered,
                 selectedChatMatch>>
  /\ LikeFrame

LikeCheckIgnoresRows(c, ok) ==
  /\ likeCall[c].pc = "checking"
  /\ likeCall' = [likeCall EXCEPT ![c] =
        IF ok THEN [@ EXCEPT !.pc = "inserting"]
        ELSE [@ EXCEPT !.pc = "done", !.result = "checkError"]]
  /\ UNCHANGED <<likeRows, remoteMatch, unlikeCall, stale, discovered,
                 selectedChatMatch>>
  /\ LikeFrame

\* mutationFn up to the insert: select the existing rows; checkError throws;
\* an existing row resolves at once and onSuccess runs
LikeCheck(c, ok) ==
  /\ likeCall[c].pc = "checking"
  /\ LET existingLikes == likeRows[likeCall[c].profileId] IN
     IF ~ok
     THEN /\ likeCall' = [likeCall EXCEPT ![c] =
                 IF MutationDefaultRetry(@.failureCount)
                 THEN [@ EXCEPT !.pc = "checking", !.failureCount = @ + 1]
                 ELSE [@ EXCEPT !.pc = "done", !.result = "checkError",
                                !.failureCount = @ + 1]]
          /\ UNCHANGED <<stale, discovered>>
     ELSE IF existingLikes > 0
     THEN /\ likeCall' = [likeCall EXCEPT ![c] =
                 [@ EXCEPT !.pc = "done", !.result = "success"]]
          /\ discovered' = RemoveDiscoveredProfile(discovered,
                                                    likeCall[c].profileId)
          /\ stale' = stale \cup LikeOnSuccessInvalidations
     ELSE /\ likeCall' = [likeCall EXCEPT ![c] = [@ EXCEPT !.pc = "inserting"]]
          /\ UNCHANGED <<stale, discovered>>
  /\ UNCHANGED <<likeRows, remoteMatch, unlikeCall, selectedChatMatch>>
  /\ LikeFrame

\* mutationFn: the insert, then onSuccess; a throw runs mutationFn again while
\* the mutation retry allows
LikeInsert(c, ok) ==
  /\ likeCall[c].pc = "inserting"
  /\ IF ok
     THEN /\ likeRows' = [likeRows EXCEPT ![likeCall[c].profileId] = @ + 1]
          /\ likeCall' = [likeCall EXCEPT ![c] =
                 [@ EXCEPT !.pc = "done", !.result = "success",
                           !.inserted = TRUE, !.writes = @ + 1]]
          /\ discovered' = RemoveDiscoveredProfile(discovered,
                                                    likeCall[c].profileId)
          /\ stale' = stale \cup LikeOnSuccessInvalidations
     ELSE /\ likeCall' = [likeCall EXCEPT ![c] =
                 IF MutationDefaultRetry(@.failureCount)
                 THEN [@ EXCEPT !.pc = "checking", !.failureCount = @ + 1,
                                !.writes = @ + 1, !.writeFailed = TRUE]
                 ELSE [@ EXCEPT !.pc = "done", !.result = "insertError",
                                !.failureCount = @ + 1, !.writes = @ + 1,
                                !.writeFailed = TRUE]]
          /\ UNCHANGED <<likeRows, stale, discovered>>
  /\ UNCHANGED <<remoteMatch, unlikeCall, selectedChatMatch>>
  /\ LikeFrame

\* mutate({profileId, userId: Viewer})
UnlikeStart(profileId) ==
  /\ unlikeCall.pc = "idle"
  /\ unlikeCall' = [unlikeCall EXCEPT
                      !.pc = "lookup", !.profileId = profileId,
                      \* the remote rows of the pair when the call is made
                      !.before = [match |-> remoteMatch[profileId],
                                  likes |-> likeRows[profileId]]]
  /\ UNCHANGED <<likeRows, remoteMatch, likeCall, stale, discovered,
                 selectedChatMatch>>
  /\ LikeFrame

\* mutationFn: select the match in both directions; only data is read, so a
\* failed select looks like no match
UnlikeLookup(ok) ==
  /\ unlikeCall.pc = "lookup"
  /\ LET exists == remoteMatch[unlikeCall.profileId].exists
         found == ok /\ exists
     IN unlikeCall' = [unlikeCall EXCEPT
                         !.matchExisted = exists,
                         !.matchData = found,
                         !.pc = IF found THEN "cascade" ELSE "delete"]
  /\ UNCHANGED <<likeRows, remoteMatch, likeCall, stale, discovered,
                 selectedChatMatch>>
  /\ LikeFrame

\* mutationFn: rpc delete_match_and_messages; its error is logged only
UnlikeCascade(ok) ==
  /\ unlikeCall.pc = "cascade"
  /\ unlikeCall' = [unlikeCall EXCEPT !.rpcInvoked = TRUE,
                                      !.deletionError = ~ok,
                                      !.pc = "delete"]
  /\ remoteMatch' = IF ok
                    THEN [remoteMatch EXCEPT ![unlikeCall.profileId] = NoMatch]
                    ELSE remoteMatch
  /\ UNCHANGED <<likeRows, likeCall, stale, discovered, selectedChatMatch>>
  /\ LikeFrame

\* mutationFn: delete the like rows, then onSuccess; a throw runs mutationFn
\* again while the mutation retry allows
UnlikeDelete(ok) ==
  /\ unlikeCall.pc = "delete"
  /\ IF ok
     THEN /\ likeRows' = [likeRows EXCEPT ![unlikeCall.profileId] = 0]
          /\ unlikeCall' = [unlikeCall EXCEPT !.pc = "done",
                                              !.deleteIssued = TRUE,
                                              !.result = "success"]
          /\ selectedChatMatch' =
               ClearSelectedChatMatch(selectedChatMatch, unlikeCall.profileId)
          /\ stale' = stale \cup UnlikeOnSuccessInvalidations
     ELSE /\ unlikeCall' =
               IF MutationDefaultRetry(unlikeCall.failureCount)
               THEN [unlikeCall EXCEPT !.pc = "lookup",
                                       !.deleteIssued = TRUE,
                                       !.failureCount = @ + 1]
               ELSE [unlikeCall EXCEPT !.pc = "done",
                                       !.deleteIssued = TRUE,
                                       !.deleteError = TRUE,
                                       !.failureCount = @ + 1,
                                       !.result = "error"]
          /\ UNCHANGED <<likeRows, stale, selectedChatMatch>>
  /\ UNCHANGED <<remoteMatch, likeCall, discovered>>
  /\ LikeFrame

LikeInitIdle ==
  /\ likeRows = [p \in Profiles |-> 0]
  /\ remoteMatch = [p \in Profiles |-> NoMatch]
  /\ likeCall = [c \in 1..MaxLikeCalls |-> IdleLike]
  /\ unlikeCall = IdleUnlike
  /\ discovered = {}
  /\ selectedChatMatch = NoSelection

\* ============================================================ Matches page
\* useMatches as the page destructures it: data = [] until the query has data
NoMatches == [status |-> "loading", data |-> {}]

\* useMatches.queryFn: the ids of the viewer's rows of matches
MatchesQueryFn(remote) ==
  {MatchIdOf(p) : p \in {q \in Profiles : remote[q].exists}}

\* Matches: the effect on [matches, selectedChatMatch]
ClearSelectionEffect(selected, list) ==
  IF selected # NoSelection /\ Cardinality(list) > 0
  THEN LET matchStillExists == \E id \in list : id = selected.matchId
       IN IF ~matchStillExists THEN NoSelection ELSE selected
  ELSE selected

\* the useMatches query settles with the rows of the remote table; the page
\* renders and the effect runs
MatchesQuerySettles ==
  /\ matches' = [status |-> "success", data |-> MatchesQueryFn(remoteMatch)]
  /\ selectedChatMatch' =
       ClearSelectionEffect(selectedChatMatch, MatchesQueryFn(remoteMatch))
  /\ UNCHANGED <<likeRows, remoteMatch, likeCall, unlikeCall, discovered>>
  /\ UNCHANGED <<msgVars, stale, markVars, composeVars, markIssuedFor>>
  /\ MatchesFrame

\* the remote store creates the match with p (mutual like) or deletes it (the
\* other party unlikes)
RemoteMatchChange(p) ==
  /\ remoteMatch' = [remoteMatch EXCEPT ![p] =
        IF @.exists THEN NoMatch ELSE [exists |-> TRUE, messages |-> 0]]
  /\ UNCHANGED <<likeRows, likeCall, unlikeCall, discovered, selectedChatMatch>>
  /\ UNCHANGED <<msgVars, stale, markVars, composeVars, matchesVars>>
  /\ MatchesFrame

\* Matches.handleMatchSelect(match) on an entry of the rendered list
HandleMatchSelect(p) ==
  /\ MatchIdOf(p) \in matches.data
  /\ selectedChatMatch' =
       ClearSelectionEffect(TransformedMatch(p), matches.data)
  /\ IF pageUser # "undefined"
     THEN /\ MarkMessagesAsReadUpdate
          /\ markIssuedFor' = markIssuedFor \cup
                {msgStore[i].id : i \in 1..Len(msgStore)}
     ELSE UNCHANGED <<msgVars, stale, markVars, markIssuedFor>>
  /\ UNCHANGED <<likeRows, remoteMatch, likeCall, unlikeCall, discovered>>
  /\ UNCHANGED <<composeVars, matches>>
  /\ MatchesFrame

\* useMessagesRealtime(selectedChatMatch?.matchId, user?.id): the callback of
\* the open conversation's channel; there is no channel without a selection
\* or without a user
OpenChatChannelHandler(payload) ==
  /\ selectedChatMatch # NoSelection
  /\ pageUser # "undefined"
  /\ MessagesChannelHandler(payload)

\* Matches.handleBackToList
HandleBackToList ==
  /\ selectedChatMatch # NoSelection
  /\ selectedChatMatch' = NoSelection
  /\ UNCHANGED <<likeRows, remoteMatch, likeCall, unlikeCall, discovered>>
  /\ UNCHANGED <<msgVars, stale, markVars, composeVars, matchesVars>>
  /\ MatchesFrame

MatchesInitIdle ==
  /\ matches = NoMatches
  /\ markIssuedFor = {}

\* ===================================================== discovery query function
\* rows of privacy_respecting_profiles; u1 is the viewer's own row
Directory ==
  {[id |-> "u1", gender |-> "man", age |-> 30, state |-> "S1", city |-> "C1"],
   [id |-> "p1", gender |-> "woman", age |-> 25, state |-> "S1", city |-> "C1"],
   [id |-> "p2", gender |-> "man", age |-> 35, state |-> "S2", city |-> "C2"]}

DiscoverVariants == {"discover-profiles", "discover-profiles-paginated",
                     "discover-profiles-optimized"}

\* ProfileFilters values; "" is an unset state or city filter
FilterValues ==
  [gender : {"everyone", "woman", "man"},
   ageRange : {<<18, 99>>, <<25, 30>>, <<26, 34>>},
   stateFilter : {"", "S1"},
   cityFilter : {"", "C2"}]

NoFilters == [gender |-> "everyone", ageRange |-> <<18, 99>>,
              stateFilter |-> "", cityFilter |-> ""]

IdleDiscover == [pc |-> "idle", variant |-> "discover-profiles",
                 filters |-> NoFilters, likedProfileIds |-> {},
                 lookupFailed |-> FALSE, data |-> {}, status |-> "none",
                 loading |-> FALSE, error |-> FALSE]

\* the select on privacy_respecting_profiles as the query builder composes it
ProfilesSelect(userId, filters, likedProfileIds) ==
  {r.id : r \in
     {r \in Directory :
        /\ r.id # userId
        /\ (filters.gender # "" /\ filters.gender # "everyone")
             => r.gender = filters.gender
        /\ r.age >= filters.ageRange[1] /\ r.age <= filters.ageRange[2]
        /\ filters.stateFilter # "" => r.state = filters.stateFilter
        /\ filters.cityFilter # "" => r.city = filters.cityFilter
        /\ likedProfileIds # {} => r.id \notin likedProfileIds}}

\* queryFn starts: the store is set to loading
DiscoverQueryStart(variant, filters) ==
  /\ discCall.pc \in {"idle", "done"}
  /\ discCall' = [IdleDiscover EXCEPT !.pc = "likes", !.variant = variant,
                                      !.filters = filters, !.loading = TRUE]
  /\ UNCHANGED likeVars
  /\ DiscFrame

\* the select of the viewer's likes; its error is not read
DiscoverLikesLookup(ok) ==
  /\ discCall.pc = "likes"
  /\ LET likedData == {q \in Profiles : likeRows[q] > 0} IN
       discCall' = [discCall EXCEPT
                      !.likedProfileIds = IF ok THEN likedData ELSE {},
                      !.lookupFailed = ~ok,
                      !.pc = "profiles"]
  /\ UNCHANGED likeVars
  /\ DiscFrame

\* the select of the candidates, then the store update; the paginated query
\* does not write the store's working set
DiscoverProfilesQuery(ok) ==
  /\ discCall.pc = "profiles"
  /\ LET data == ProfilesSelect(Viewer, discCall.filters,
                                discCall.likedProfileIds)
     IN IF ok
        THEN /\ discCall' = [discCall EXCEPT !.pc = "done", !.data = data,
                                             !.status = "success",
                                             !.loading = FALSE]
             /\ discovered' =
                  IF discCall.variant = "discover-profiles-paginated"
                  THEN discovered ELSE data
        ELSE /\ discCall' = [discCall EXCEPT !.pc = "done",
                                             !.status = "error",
                                             !.loading = FALSE,
                                             !.error = TRUE]
             /\ UNCHANGED discovered
  /\ UNCHANGED <<likeRows, remoteMatch, likeCall, unlikeCall, selectedChatMatch>>
  /\ DiscFrame

DiscInitIdle == discCall = IdleDiscover

\* ============================================ Matches page: the message input
Texts == {"", "  ", "hi", " hi "}

\* String.prototype.trim on the texts above
Trim(t) == IF t = "  " THEN "" ELSE IF t = " hi " THEN "hi" ELSE t

IdleSend == [pc |-> "idle", text |-> "", failureCount |-> 0, result |-> "none"]

\* onChange of the input: setChatMessage(e.target.value)
TypeMessage(t) ==
  /\ sendCall.pc # "sending"
  /\ t # chatMessage
  /\ chatMessage' = t
  /\ UNCHANGED <<pageUser, sendCall>>
  /\ UNCHANGED <<msgVars, stale>>
  /\ ComposeFrame

\* handleSendMessage up to the await: the input is cleared before the send
HandleSendMessage ==
  /\ sendCall.pc # "sending"
  /\ ~(Trim(chatMessage) = "" \/ selectedChatMatch = NoSelection \/
       pageUser = "undefined")
  /\ LET messageText == Trim(chatMessage) IN
       sendCall' = [pc |-> "sending", text |-> messageText,
                    failureCount |-> 0, result |-> "none"]
  /\ chatMessage' = ""
  /\ UNCHANGED pageUser
  /\ UNCHANGED <<msgVars, stale>>
  /\ ComposeFrame

\* sendMessage.mutateAsync settles: the insert succeeds, or it fails and is
\* run again while the mutation retry allows, or the call throws and the catch
\* block logs the error
SendMessageSettles(ok) ==
  /\ sendCall.pc = "sending"
  /\ IF ok
     THEN /\ SendMessageInsert
          /\ sendCall' = [sendCall EXCEPT !.pc = "done", !.result = "sent"]
     ELSE /\ sendCall' =
               IF MutationDefaultRetry(sendCall.failureCount)
               THEN [sendCall EXCEPT !.failureCount = @ + 1]
               ELSE [sendCall EXCEPT !.pc = "done", !.result = "error",
                                     !.failureCount = @ + 1]
          /\ UNCHANGED <<msgVars, stale>>
  /\ UNCHANGED <<chatMessage, pageUser>>
  /\ ComposeFrame

ComposeInitIdle ==
  /\ chatMessage = ""
  /\ pageUser = "u1"
  /\ sendCall = IdleSend

\* ===================================================== realtime subscriptions
MaxChannels == 3      \* channels created over the run
MaxStatusChannels == 2   \* channels created while statuses are reported

RtHooks == {"useOptimizedRealtime", "useMessagesRealtime"}
Absent == "undefined"

\* dependency values of the two effects: <<matchId, userId>>; the consolidated
\* hook has no matchId
DepsOf(h) ==
  IF h = "useOptimizedRealtime"
  THEN {<<Absent, u>> : u \in {Absent, "u1", "u2"}}
  ELSE {<<m, u>> : m \in {Absent, "m1", "m2"}, u \in {Absent, "u1"}}



Unmounted == [mounted |-> FALSE, deps |-> <<Absent, Absent>>, pc |-> "idle",
              ref |-> 0, hasCleanup |-> FALSE]

Unsubscribe(chs, ref) == [chs EXCEPT ![ref] = [@ EXCEPT !.active = FALSE]]

Subscribe(chs, h, topic) ==
  Append(chs, [hook |-> h, topic |-> topic, active |-> TRUE,
               status |-> "JOINING"])

\* useOptimizedRealtime: the effect body
OptimizedEffect(st, chs) ==
  IF st.deps[2] = Absent
  THEN [st |-> [st EXCEPT !.hasCleanup = FALSE], chs |-> chs]
  ELSE LET cleaned == IF st.ref # 0 THEN Unsubscribe(chs, st.ref) ELSE chs
           created == Subscribe(cleaned, "useOptimizedRealtime",
                                <<"user-updates", st.deps[2]>>)
       IN [st |-> [st EXCEPT !.ref = Len(created), !.hasCleanup = TRUE],
           chs |-> created]

\* useOptimizedRealtime: the function the effect returns
OptimizedCleanup(st, chs) ==
  [st |-> st,
   chs |-> IF st.ref # 0 THEN Unsubscribe(chs, st.ref) ELSE chs]

MessagesEffectAnyUser(st, chs) ==
  IF st.deps[1] = Absent
  THEN [st |-> [st EXCEPT !.ref = 0, !.hasCleanup = FALSE],
        chs |-> IF st.ref # 0 THEN Unsubscribe(chs, st.ref) ELSE chs]
  ELSE LET created == Subscribe(chs, "useMessagesRealtime",
                                <<"messages", st.deps[1]>>)
       IN [st |-> [st EXCEPT !.ref = Len(created), !.hasCleanup = TRUE],
           chs |-> created]

\* useMessagesRealtime: the effect body
MessagesEffect(st, chs) ==
  IF st.deps[1] = Absent \/ st.deps[2] = Absent
  THEN [st |-> [st EXCEPT !.ref = 0, !.hasCleanup = FALSE],
        chs |-> IF st.ref # 0 THEN Unsubscribe(chs, st.ref) ELSE chs]
  ELSE LET created == Subscribe(chs, "useMessagesRealtime",
                                <<"messages", st.deps[1]>>)
       IN [st |-> [st EXCEPT !.ref = Len(created), !.hasCleanup = TRUE],
           chs |-> created]

MessagesCleanupForgets(st, chs) ==
  [st |-> [st EXCEPT !.ref = 0], chs |-> chs]

\* useMessagesRealtime: the function the effect returns
MessagesCleanup(st, chs) ==
  [st |-> [st EXCEPT !.ref = 0],
   chs |-> IF st.ref # 0 THEN Unsubscribe(chs, st.ref) ELSE chs]

EffectOf(h, st, chs) ==
  IF h = "useOptimizedRealtime" THEN OptimizedEffect(st, chs)
  ELSE MessagesEffect(st, chs)

CleanupOf(h, st, chs) ==
  IF h = "useOptimizedRealtime" THEN OptimizedCleanup(st, chs)
  ELSE MessagesCleanup(st, chs)

\* the component mounts: a new hook instance with subscriptionRef = null
Mount(h, d) ==
  /\ ~hook[h].mounted
  /\ hook[h].pc = "idle"
  /\ Len(channels) < MaxChannels
  /\ hook' = [hook EXCEPT ![h] = [mounted |-> TRUE, deps |-> d, pc |-> "effect",
                                  ref |-> 0, hasCleanup |-> FALSE]]
  /\ UNCHANGED channels
  /\ SubFrame

\* a render with a different matchId / userId
ChangeDeps(h, d) ==
  /\ hook[h].mounted
  /\ hook[h].pc = "idle"
  /\ d # hook[h].deps
  /\ Len(channels) < MaxChannels
  /\ hook' = [hook EXCEPT ![h] = [@ EXCEPT !.deps = d, !.pc = "cleanup"]]
  /\ UNCHANGED channels
  /\ SubFrame

\* the component unmounts
Unmount(h) ==
  /\ hook[h].mounted
  /\ hook[h].pc = "idle"
  /\ hook' = [hook EXCEPT ![h] = [@ EXCEPT !.mounted = FALSE, !.pc = "cleanup"]]
  /\ UNCHANGED channels
  /\ SubFrame

\* React runs the cleanup returned by the previous effect, if it returned one
RunCleanup(h) ==
  /\ hook[h].pc = "cleanup"
  /\ LET r == IF hook[h].hasCleanup
              THEN CleanupOf(h, hook[h], channels)
              ELSE [st |-> hook[h], chs |-> channels]
     IN /\ hook' = [hook EXCEPT ![h] =
                      [r.st EXCEPT !.hasCleanup = FALSE,
                                   !.pc = IF hook[h].mounted THEN "effect"
                                          ELSE "idle"]]
        /\ channels' = r.chs
  /\ SubFrame

\* React runs the effect
RunEffect(h) ==
  /\ hook[h].pc = "effect"
  /\ LET r == EffectOf(h, hook[h], channels)
     IN /\ hook' = [hook EXCEPT ![h] = [r.st EXCEPT !.pc = "idle"]]
        /\ channels' = r.chs
  /\ SubFrame

ChannelStatuses == {"SUBSCRIBED", "CHANNEL_ERROR", "TIMED_OUT", "CLOSED"}
DegradedStatuses == {"CHANNEL_ERROR", "TIMED_OUT", "CLOSED"}

OnSubscriptionStatusResubscribes(h, st, chs, i, status) ==
  IF status \in DegradedStatuses
  THEN LET created == Subscribe(chs, h, chs[i].topic)
       IN [st |-> [st EXCEPT !.ref = Len(created)], chs |-> created]
  ELSE [st |-> st, chs |-> chs]

\* the callback passed to subscribe(): both hooks log the status and do
\* nothing else
OnSubscriptionStatus(h, st, chs, i, status) ==
  IF h = "useOptimizedRealtime"
  THEN (IF status = "CHANNEL_ERROR" THEN [st |-> st, chs |-> chs]
        ELSE IF status = "SUBSCRIBED" THEN [st |-> st, chs |-> chs]
        ELSE IF status = "CLOSED" THEN [st |-> st, chs |-> chs]
        ELSE IF status = "TIMED_OUT" THEN [st |-> st, chs |-> chs]
        ELSE [st |-> st, chs |-> chs])
  ELSE (IF status = "CHANNEL_ERROR" THEN [st |-> st, chs |-> chs]
        ELSE [st |-> st, chs |-> chs])

\* the realtime client reports a new status of a channel the hook holds
SubscriptionStatus(i, status) ==
  /\ i \in 1..Len(channels)
  /\ channels[i].active
  /\ channels[i].status \notin DegradedStatuses
  /\ channels[i].status # status
  /\ LET h == channels[i].hook
         reported == [channels EXCEPT ![i] = [@ EXCEPT !.status = status]]
         r == OnSubscriptionStatus(h, hook[h], reported, i, status)
     IN /\ hook' = [hook EXCEPT ![h] = r.st]
        /\ channels' = r.chs
  /\ SubFrame

SubInitIdle ==
  /\ hook = [h \in RtHooks |-> Unmounted]
  /\ channels = <<>>

\* ============================================================== smart hooks
SmartHooks == {"useDiscoverProfilesSmart", "useDiscoverProfilesPaginatedSmart",
               "useMatchMessagesSmart"}



FreshSmart == [error |-> FALSE, flag |-> TRUE, seenError |-> FALSE,
               returned |-> "none"]

\* useDiscoverProfilesSmart: one render and its effect
DiscoverSmartRender(st) ==
  LET shouldUseOptimized == st.flag /\ ~st.error
  IN [st EXCEPT !.returned = IF shouldUseOptimized THEN "primary" ELSE "fallback",
                !.flag = IF st.error /\ st.flag THEN FALSE ELSE st.flag,
                !.seenError = st.seenError \/ st.error]

\* useDiscoverProfilesPaginatedSmart: one render and its effect
PaginatedSmartRender(st) ==
  LET shouldUsePaginated == st.flag /\ ~st.error
  IN [st EXCEPT !.returned = IF shouldUsePaginated THEN "primary" ELSE "fallback",
                !.flag = IF st.error /\ st.flag THEN FALSE ELSE st.flag,
                !.seenError = st.seenError \/ st.error]

\* useMatchMessagesSmart: one render; the hook keeps no state
MessagesSmartRender(st) ==
  LET shouldUsePaginated == ~st.error
  IN [st EXCEPT !.returned = IF shouldUsePaginated THEN "primary" ELSE "fallback",
                !.seenError = st.seenError \/ st.error]

\* the primary query ends in error (its retries are used up)
PrimaryFails(h) ==
  /\ ~smart[h].error
  /\ smart' = [smart EXCEPT ![h] = [@ EXCEPT !.error = TRUE]]
  /\ SmartFrame

\* a later fetch of the primary query succeeds: error is null again
PrimarySucceeds(h) ==
  /\ smart[h].error
  /\ smart' = [smart EXCEPT ![h] = [@ EXCEPT !.error = FALSE]]
  /\ SmartFrame

SmartRender(h) ==
  /\ smart' = [smart EXCEPT ![h] =
       IF h = "useDiscoverProfilesSmart" THEN DiscoverSmartRender(@)
       ELSE IF h = "useDiscoverProfilesPaginatedSmart"
            THEN PaginatedSmartRender(@)
       ELSE MessagesSmartRender(@)]
  /\ SmartFrame

\* the component using the hook is mounted again: a new instance
SmartRemount(h) ==
  /\ smart[h].returned # "none"
  /\ smart' = [smart EXCEPT ![h] = [FreshSmart EXCEPT !.error = smart[h].error]]
  /\ SmartFrame

SmartInitIdle == smart = [h \in SmartHooks |-> FreshSmart]

\* ================================================== query fetches and retries
QueryHooks == {"useMatches", "useMatchMessagesPaginated",
               "useDiscoverProfilesPaginated"}

\* a query of a new key: never fetched
FreshQuery(present) ==
  [present |-> present, status |-> "idle", fetching |-> FALSE,
   hasData |-> FALSE, failureCount |-> 0, calls |-> 0, remoteCalls |-> 0]

QueryDefaultRetryThrice(failureCount, clientError) ==
  IF failureCount < 3 THEN TRUE
  ELSE IF clientError THEN FALSE
  ELSE FALSE

\* queryClient defaultOptions.queries.retry
QueryDefaultRetry(failureCount, clientError) ==
  IF failureCount < 2 THEN TRUE
  ELSE IF clientError THEN FALSE
  ELSE FALSE

\* useMatchMessagesPaginated: retry
MessagesPaginatedRetry(failureCount, clientError) ==
  IF failureCount < 2 THEN TRUE ELSE FALSE

\* useDiscoverProfilesPaginated: retry
DiscoverPaginatedRetry(failureCount, clientError) ==
  IF failureCount < 2 THEN TRUE ELSE FALSE

RetryOf(h, failureCount, clientError) ==
  IF h = "useMatches" THEN QueryDefaultRetry(failureCount, clientError)
  ELSE IF h = "useMatchMessagesPaginated"
       THEN MessagesPaginatedRetry(failureCount, clientError)
  ELSE DiscoverPaginatedRetry(failureCount, clientError)

\* enabled: !!userId / !!matchId
Enabled(q) == q.present

\* a fetch starts: the failure count is cleared, and a query that never had
\* data shows loading with no error
StartFetch(q) ==
  [q EXCEPT !.fetching = TRUE, !.failureCount = 0, !.calls = 0,
            !.remoteCalls = 0,
            !.status = IF q.hasData THEN q.status ELSE "loading"]

\* the identity parameter of the hook changes: another query key
QuerySetIdentity(h, present) ==
  /\ ~query[h].fetching
  /\ present # query[h].present
  /\ query' = [query EXCEPT ![h] = FreshQuery(present)]
  /\ QueryFrame

\* the mounted observer fetches an enabled query that has no data
QueryAutoFetch(h) ==
  /\ Enabled(query[h])
  /\ ~query[h].fetching
  /\ query[h].status = "idle"
  /\ query' = [query EXCEPT ![h] = StartFetch(@)]
  /\ QueryFrame

\* refetch() of the hook result; it does not look at enabled
QueryRefetch(h) ==
  /\ ~query[h].fetching
  /\ query' = [query EXCEPT ![h] = StartFetch(@)]
  /\ QueryFrame

\* one run of queryFn: it throws before the remote call when the identity is
\* absent; a failure is retried while retry(failureCount, error) allows
QueryAttempt(h, ok, clientError) ==
  /\ query[h].fetching
  /\ LET q == query[h]
         called == [q EXCEPT !.calls = @ + 1,
                             !.remoteCalls = IF q.present THEN @ + 1 ELSE @]
     IN query' = [query EXCEPT ![h] =
          IF q.present /\ ok
          THEN [called EXCEPT !.status = "success", !.hasData = TRUE,
                              !.fetching = FALSE, !.failureCount = 0]
          ELSE IF RetryOf(h, q.failureCount, clientError)
          THEN [called EXCEPT !.failureCount = @ + 1]
          ELSE [called EXCEPT !.failureCount = @ + 1, !.status = "error",
                              !.fetching = FALSE]]
  /\ QueryFrame

QueryInitIdle == query = [h \in QueryHooks |-> FreshQuery(FALSE)]

\* ================================================================ PassProfile
ListedProfiles == {"p1", "p2", "p3"}

Profile(id) == [id |-> id]

\* the discovery query keys, all variants, filters and users
DiscoveryQueryKeys ==
  {k \in CacheKeys : k[1] \in {"discover-profiles", "discover-profiles-paginated",
                               "discover-profiles-optimized"}}

NoListing == [has |-> FALSE, profiles |-> <<>>, pages |-> <<>>]

\* cached data of a base or optimized discovery query: an array of profiles
ArrayListing(profiles) == [has |-> TRUE, profiles |-> profiles, pages |-> <<>>]

\* cached data of the paginated discovery query: pages of profiles
PagedListing(pages) == [has |-> TRUE, profiles |-> <<>>, pages |-> pages]

\* the list a discovery hook hands to its component
ListOf(k, data) ==
  IF k[1] = "discover-profiles-paginated" THEN FlatMapProfiles(data.pages)
  ELSE data.profiles

\* usePassProfile.onSuccess: the updater given to setQueriesData
PassUpdater(oldData, profileId) ==
  IF ~oldData.has THEN oldData
  ELSE [oldData EXCEPT !.profiles = Filter(@, profileId)]

\* queryClient.setQueriesData({ queryKey }, updater) with the pass updater
SetQueriesData(cache, filterKey, profileId) ==
  [k \in DOMAIN cache |->
     IF PartialMatchKey(k, filterKey) THEN PassUpdater(cache[k], profileId)
     ELSE cache[k]]

\* usePassProfile: mutationFn returns its argument, then onSuccess
PassProfile(profileId) ==
  /\ listing' = SetQueriesData(listing, <<"discover-profiles">>, profileId)
  /\ PassFrame

PassInitIdle == listing = [k \in DiscoveryQueryKeys |-> NoListing]

\* ============================================================== Discover page
\* the query of the page: useDiscoverProfiles(filters, user?.id)
PageKey == <<"discover-profiles", "f1", Viewer>>

\* data: profiles = [] of the page
PageProfiles(cache) ==
  IF cache[PageKey].has THEN cache[PageKey].profiles ELSE <<>>

\* the rows the discovery query returns for the viewer, in the order of the
\* view, without the profiles the viewer has liked
ServerProfiles ==
  <<Profile("p1"), Profile("p2"), Profile("p3"), Profile("p4")>>

RECURSIVE ExcludeLiked(_, _)
ExcludeLiked(rows, likedProfileIds) ==
  IF rows = <<>> THEN <<>>
  ELSE IF Head(rows).id \in likedProfileIds
       THEN ExcludeLiked(Tail(rows), likedProfileIds)
       ELSE <<Head(rows)>> \o ExcludeLiked(Tail(rows), likedProfileIds)

\* the updater handleLike and handlePass give to setCurrentProfileIndex;
\* length is profiles.length of the render that created the handler
AdvanceIndex(prev, length) ==
  LET newLength == length - 1
  IN IF prev < newLength THEN prev + 1 ELSE prev

\* the effect on [profiles.length, currentProfileIndex]
ClampIndexEffect(index, length) ==
  IF index >= length /\ length > 0 THEN length - 1
  ELSE IF length = 0 THEN 0
  ELSE index

\* the id of the profile displayed: profiles[currentProfileIndex]
CurrentProfileId(list, index) ==
  IF index < Len(list) THEN list[index + 1].id ELSE "undefined"

NoAct == [kind |-> "none", follower |-> "none", removed |-> FALSE]

\* handlePass: the mutation's onSuccess removes the profile from the cached
\* lists, then the index is advanced and the effect runs
HandlePass ==
  /\ CurrentProfileId(PageProfiles(listing), currentProfileIndex) # "undefined"
  /\ LET list == PageProfiles(listing)
         currentProfile == list[currentProfileIndex + 1]
         cache == SetQueriesData(listing, <<"discover-profiles">>,
                                 currentProfile.id)
     IN /\ listing' = cache
        /\ currentProfileIndex' =
             ClampIndexEffect(AdvanceIndex(currentProfileIndex, Len(list)),
                              Len(PageProfiles(cache)))
        /\ discoverAct' =
             [kind |-> "pass", removed |-> TRUE,
              follower |-> CurrentProfileId(list, currentProfileIndex + 1)]
  /\ UNCHANGED <<stale, likeVars, pageLiked>>
  /\ DiscoverPageFrame

\* handleLike: a failed mutation is caught and logged; a successful one runs
\* useLikeProfile.onSuccess, then the index is advanced and the effect runs
HandleLike(ok) ==
  /\ pageUser # "undefined"
  /\ CurrentProfileId(PageProfiles(listing), currentProfileIndex) # "undefined"
  /\ LET list == PageProfiles(listing)
         currentProfile == list[currentProfileIndex + 1]
     IN IF ok
        THEN /\ pageLiked' = pageLiked \cup {currentProfile.id}
             /\ discovered' = RemoveDiscoveredProfile(discovered,
                                                       currentProfile.id)
             /\ stale' = stale \cup LikeOnSuccessInvalidations
             /\ currentProfileIndex' =
                  ClampIndexEffect(AdvanceIndex(currentProfileIndex, Len(list)),
                                   Len(list))
             /\ discoverAct' =
                  [kind |-> "like", removed |-> FALSE,
                   follower |-> CurrentProfileId(list, currentProfileIndex + 1)]
        ELSE UNCHANGED <<pageLiked, discovered, stale, currentProfileIndex,
                         discoverAct>>
  /\ UNCHANGED <<likeRows, remoteMatch, likeCall, unlikeCall,
                 selectedChatMatch, listing>>
  /\ DiscoverPageFrame

\* the invalidated query of the page is fetched again: the list no longer
\* holds the liked profiles; the page renders and the effect runs
DiscoverRefetchSettles ==
  /\ PageKey \in stale
  /\ stale' = stale \ {PageKey}
  /\ LET list == ExcludeLiked(ServerProfiles, pageLiked) IN
       /\ listing' = [listing EXCEPT ![PageKey] = ArrayListing(list)]
       /\ currentProfileIndex' = ClampIndexEffect(currentProfileIndex, Len(list))
  /\ discoverAct' = IF discoverAct.kind = "like" /\ ~discoverAct.removed
                    THEN [discoverAct EXCEPT !.removed = TRUE]
                    ELSE NoAct
  /\ UNCHANGED <<likeVars, pageLiked>>
  /\ DiscoverPageFrame

DiscoverPageInitIdle ==
  /\ currentProfileIndex = 0
  /\ pageLiked = {}
  /\ discoverAct = NoAct

\* ============================================================ specifications

MsgInitIdle ==
  /\ msgPageSize = MsgPageSize
  /\ msgStore = <<>>
  /\ msgIssued = 0
  /\ events = {}
  /\ pendingSend = {}
  /\ paginated = NoPaginated
  /\ flat = NoFlat
  /\ inflight = NoFetch
  /\ lastEvent = NoEvent
  /\ delivered = {}

\* SendMessage completions and realtime INSERT events over a loaded conversation
InsertInit ==
  /\ MsgInitLoaded(MsgPageSize, MaxMsgs) /\ PageInitIdle /\ stale = {} /\ RtInitIdle /\ LikeInitIdle
  /\ SubInitIdle /\ SmartInitIdle /\ QueryInitIdle
  /\ PassInitIdle /\ DiscoverPageInitIdle /\ MatchesInitIdle /\ TraceInitIdle /\ DiscInitIdle /\ ComposeInitIdle /\ MarkInitIdle
SpecInsert == InsertInit /\ [][InsertNext]_vars

\* the per-conversation channel handler over a loaded conversation
RecipeInit ==
  /\ MsgInitLoaded(RecipePageSize, MaxRecipeMsgs) /\ PageInitIdle /\ stale = {} /\ RtInitIdle /\ LikeInitIdle
  /\ SubInitIdle /\ SmartInitIdle /\ QueryInitIdle
  /\ PassInitIdle /\ DiscoverPageInitIdle /\ MatchesInitIdle /\ TraceInitIdle /\ DiscInitIdle /\ ComposeInitIdle /\ MarkInitIdle
SpecRecipes == RecipeInit /\ [][RecipeNext]_vars

\* SendMessage completions and INSERT and DELETE events over both caches
AgreeNext ==
  \/ msgIssued < MaxRecipeMsgs /\ SendMessageMutation
  \/ \E m \in pendingSend : SendOnSuccess(m)
  \/ msgIssued < MaxRecipeMsgs /\ RemoteInsert
  \/ \E i \in 1..Len(msgStore) : RemoteDelete(i)
  \/ \E payload \in events : MessagesChannelHandler(payload)
SpecAgree == RecipeInit /\ [][AgreeNext]_vars

\* the channel handler under remote inserts and updates
UpdateNext ==
  \/ msgIssued < MaxRecipeMsgs /\ RemoteInsert
  \/ \E i \in 1..Len(msgStore) : RemoteUpdate(i)
  \/ \E payload \in events : MessagesChannelHandler(payload)
SpecUpdate == RecipeInit /\ [][UpdateNext]_vars

\* the open conversation being marked read while the other party writes
MarkInit ==
  /\ MsgInitLoaded(MsgPageSize, MaxMsgs) /\ PageInitIdle /\ stale = {} /\ RtInitIdle
  /\ LikeInitIdle /\ SubInitIdle /\ SmartInitIdle /\ QueryInitIdle
  /\ PassInitIdle /\ DiscoverPageInitIdle /\ MatchesInitIdle /\ TraceInitIdle /\ DiscInitIdle /\ ComposeInitIdle /\ MarkInitIdle
MarkNext ==
  \/ msgIssued < MaxMsgs /\ RemoteInsert
  \/ MarkMessagesAsReadMutation
  \/ MarkReadOnSuccess
  \/ \E payload \in events : MessagesChannelHandler(payload)
SpecMark == MarkInit /\ [][MarkNext]_vars

\* the Matches page while matches come and go in the remote store
MatchesPageInit ==
  /\ MsgInitIdle /\ PageInitIdle /\ stale = {} /\ RtInitIdle
  /\ SubInitIdle /\ SmartInitIdle /\ QueryInitIdle
  /\ PassInitIdle /\ DiscoverPageInitIdle /\ TraceInitIdle /\ DiscInitIdle /\ MarkInitIdle
  /\ MatchesInitIdle
  /\ likeRows = [p \in Profiles |-> 0]
  /\ remoteMatch \in [Profiles -> {NoMatch, [exists |-> TRUE, messages |-> 0]}]
  /\ likeCall = [c \in 1..MaxLikeCalls |-> IdleLike]
  /\ unlikeCall = IdleUnlike
  /\ discovered = {}
  /\ selectedChatMatch = NoSelection
  /\ chatMessage = ""
  /\ pageUser \in {"undefined", "u1"}
  /\ sendCall = IdleSend
MatchesPageNext ==
  \/ MatchesQuerySettles
  \/ \E p \in Profiles : RemoteMatchChange(p)
  \/ \E p \in Profiles : HandleMatchSelect(p)
  \/ HandleBackToList
  \/ MarkReadOnSuccess
SpecMatchesPage == MatchesPageInit /\ [][MatchesPageNext]_vars

\* an open conversation of the Matches page while the other party writes.
\* What the page does on its own is weakly fair: the query settles, the
\* channel delivers its events and a running mutation completes. What the user
\* does (selecting a match, going back to the list) and what the other party
\* does is not.
OpenChatInit ==
  /\ MatchesPageInit
  /\ remoteMatch["p1"].exists
OpenChatNext ==
  \/ MatchesQuerySettles
  \/ \E p \in Profiles : HandleMatchSelect(p)
  \/ HandleBackToList
  \/ msgIssued < MaxRecipeMsgs /\ selectedChatMatch # NoSelection /\ RemoteInsert
  \/ \E payload \in events : OpenChatChannelHandler(payload)
  \/ MarkReadOnSuccess
SpecOpenChat ==
  /\ OpenChatInit /\ [][OpenChatNext]_vars
  /\ WF_vars(MatchesQuerySettles)
  /\ WF_vars(\E payload \in events : OpenChatChannelHandler(payload))
  /\ WF_vars(MarkReadOnSuccess)

\* the Discover page over a fetched list while the viewer passes and likes
DiscoverPageInit ==
  /\ MsgInitIdle /\ PageInitIdle /\ stale = {} /\ RtInitIdle /\ LikeInitIdle
  /\ SubInitIdle /\ SmartInitIdle /\ QueryInitIdle /\ MatchesInitIdle
  /\ TraceInitIdle /\ DiscInitIdle /\ MarkInitIdle /\ DiscoverPageInitIdle
  /\ chatMessage = ""
  /\ pageUser \in {"undefined", "u1"}
  /\ sendCall = IdleSend
  /\ listing = [k \in DiscoveryQueryKeys |->
                  IF k = PageKey THEN ArrayListing(ServerProfiles)
                  ELSE NoListing]
DiscoverPageNext ==
  \/ HandlePass
  \/ \E ok \in BOOLEAN : HandleLike(ok)
  \/ DiscoverRefetchSettles
SpecDiscoverPage == DiscoverPageInit /\ [][DiscoverPageNext]_vars

\* the message input of the Matches page while sends succeed and fail
ComposeInit ==
  /\ MsgInitIdle /\ PageInitIdle /\ stale = {} /\ RtInitIdle
  /\ SubInitIdle /\ SmartInitIdle /\ QueryInitIdle
  /\ PassInitIdle /\ DiscoverPageInitIdle /\ MatchesInitIdle /\ TraceInitIdle /\ DiscInitIdle /\ MarkInitIdle
  /\ likeRows = [p \in Profiles |-> 0]
  /\ remoteMatch = [p \in Profiles |-> NoMatch]
  /\ likeCall = [c \in 1..MaxLikeCalls |-> IdleLike]
  /\ unlikeCall = IdleUnlike
  /\ discovered = {}
  /\ selectedChatMatch \in {TransformedMatch(p) : p \in Profiles} \cup {NoSelection}
  /\ chatMessage = ""
  /\ pageUser \in {"undefined", "u1"}
  /\ sendCall = IdleSend
ComposeNext ==
  \/ \E t \in Texts : TypeMessage(t)
  \/ HandleSendMessage
  \/ \E ok \in BOOLEAN : msgIssued < MaxMsgs /\ SendMessageSettles(ok)
  \/ \E m \in pendingSend : SendOnSuccess(m)
SpecCompose == ComposeInit /\ [][ComposeNext]_vars

\* the three discovery query functions over a viewer with and without likes
DiscoverInit ==
  /\ MsgInitIdle /\ PageInitIdle /\ stale = {} /\ RtInitIdle
  /\ SubInitIdle /\ SmartInitIdle /\ QueryInitIdle
  /\ PassInitIdle /\ DiscoverPageInitIdle /\ MatchesInitIdle /\ TraceInitIdle /\ ComposeInitIdle /\ MarkInitIdle /\ DiscInitIdle
  /\ likeRows \in [Profiles -> {0, 1}]
  /\ remoteMatch = [p \in Profiles |-> NoMatch]
  /\ likeCall = [c \in 1..MaxLikeCalls |-> IdleLike]
  /\ unlikeCall = IdleUnlike
  /\ discovered = {}
  /\ selectedChatMatch = NoSelection
DiscoverNext ==
  \/ \E v \in DiscoverVariants, f \in FilterValues : DiscoverQueryStart(v, f)
  \/ \E ok \in BOOLEAN : DiscoverLikesLookup(ok)
  \/ \E ok \in BOOLEAN : DiscoverProfilesQuery(ok)
SpecDiscover == DiscoverInit /\ [][DiscoverNext]_vars

\* the message queries alone
FetchInit ==
  /\ MsgInitEmpty /\ PageInitIdle /\ stale = {} /\ RtInitIdle /\ LikeInitIdle
  /\ SubInitIdle /\ SmartInitIdle /\ QueryInitIdle
  /\ PassInitIdle /\ DiscoverPageInitIdle /\ MatchesInitIdle /\ TraceInitIdle /\ DiscInitIdle /\ ComposeInitIdle /\ MarkInitIdle
SpecFetch == FetchInit /\ [][FetchNext]_vars

\* page fetches interleaved with SendMessage completions and INSERT events
MergeNext ==
  \/ msgIssued < MaxMsgs /\ SendMessageMutation
  \/ \E m \in pendingSend : SendOnSuccess(m)
  \/ msgIssued < MaxMsgs /\ RemoteInsert
  \/ \E payload \in events : MessagesChannelHandler(payload)
  \/ PaginatedFetchStart
  \/ PaginatedFetchDone
SpecMerge == FetchInit /\ [][MergeNext]_vars

\* one send at a time; while it is pending pages are fetched, the other party
\* writes and INSERT events arrive
RecomputeNext ==
  \/ msgIssued < MaxMsgs /\ TracedSendMessageMutation
  \/ \E m \in pendingSend : TracedSendOnSuccess(m)
  \/ msgIssued < MaxMsgs /\ pendingSend # {} /\ RemoteInsert
  \/ \E payload \in events : MessagesChannelHandler(payload)
  \/ PaginatedFetchStart
  \/ PaginatedFetchDone
SpecRecompute == FetchInit /\ [][RecomputeNext]_vars

\* both paginated queries over an unchanging remote store of n rows
PageInit ==
  /\ \E n \in 0..MaxRows :
       /\ discCandidates = [i \in 1..n |-> i]
       /\ msgStore = [i \in 1..n |-> Message(i, FALSE)]
       /\ msgIssued = n
  /\ discPageSize \in 1..MaxPageSize
  /\ msgPageSize = discPageSize
  /\ discPages = <<>>
  /\ events = {} /\ pendingSend = {} /\ paginated = NoPaginated
  /\ flat = NoFlat /\ inflight = NoFetch /\ lastEvent = NoEvent
  /\ delivered = {}
  /\ stale = {} /\ RtInitIdle /\ LikeInitIdle /\ SubInitIdle /\ SmartInitIdle
  /\ QueryInitIdle /\ PassInitIdle /\ DiscoverPageInitIdle /\ MatchesInitIdle /\ TraceInitIdle /\ DiscInitIdle /\ ComposeInitIdle /\ MarkInitIdle
PageNext ==
  \/ DiscoverFetchPage
  \/ PaginatedFetchStart
  \/ PaginatedFetchDone
SpecPage == PageInit /\ [][PageNext]_vars

\* the per-user consolidated channel; the queries of its user are mounted and
\* are fetched again after an invalidation
RtInit ==
  /\ MsgInitIdle /\ PageInitIdle /\ LikeInitIdle /\ SubInitIdle /\ SmartInitIdle
  /\ QueryInitIdle /\ PassInitIdle /\ DiscoverPageInitIdle /\ MatchesInitIdle /\ TraceInitIdle /\ DiscInitIdle /\ ComposeInitIdle /\ MarkInitIdle
  /\ stale = {}
  /\ rtUser \in Users
  /\ lastRt = NoRt
RtNext ==
  \/ \E et \in EventTypes : MatchesChange(et)
  \/ \E et \in EventTypes : NotificationsChange(et)
  \/ \E et \in EventTypes : LikesChange(et)
  \/ \E et \in EventTypes : LikesChangeOfOthers(et)
  \/ \E k \in CacheKeys : k[Len(k)] = rtUser /\ RtRefetch(k)
SpecRt == RtInit /\ [][RtNext]_vars

\* LikeProfile mutations issued one after the other
LikeInit ==
  /\ MsgInitIdle /\ PageInitIdle /\ RtInitIdle /\ SubInitIdle /\ SmartInitIdle
  /\ QueryInitIdle /\ PassInitIdle /\ DiscoverPageInitIdle /\ MatchesInitIdle /\ TraceInitIdle /\ DiscInitIdle /\ ComposeInitIdle /\ MarkInitIdle
  /\ stale = {}
  /\ likeRows \in [Profiles -> {0, 1}]
  /\ remoteMatch = [p \in Profiles |-> NoMatch]
  /\ likeCall = [c \in 1..MaxLikeCalls |-> IdleLike]
  /\ unlikeCall = IdleUnlike
  /\ discovered \in SUBSET Profiles
  /\ selectedChatMatch = NoSelection
LikeSeqNext ==
  \/ \E c \in 1..MaxLikeCalls, p \in Profiles :
       /\ \A d \in 1..MaxLikeCalls :
            likeCall[d].pc = IF d < c THEN "done" ELSE "idle"
       /\ LikeStart(c, p)
  \/ \E c \in 1..MaxLikeCalls, ok \in BOOLEAN : LikeCheck(c, ok)
  \/ \E c \in 1..MaxLikeCalls, ok \in BOOLEAN : LikeInsert(c, ok)
SpecLike == LikeInit /\ [][LikeSeqNext]_vars

\* LikeProfile mutations in flight at the same time: a second mutate() before
\* the first has settled
LikeConcurrentNext ==
  \/ \E c \in 1..MaxLikeCalls, p \in Profiles : LikeStart(c, p)
  \/ \E c \in 1..MaxLikeCalls, ok \in BOOLEAN : LikeCheck(c, ok)
  \/ \E c \in 1..MaxLikeCalls, ok \in BOOLEAN : LikeInsert(c, ok)
SpecLikeConcurrent == LikeInit /\ [][LikeConcurrentNext]_vars

\* one UnlikeProfile mutation against any remote state
UnlikeInit ==
  /\ MsgInitIdle /\ PageInitIdle /\ RtInitIdle /\ SubInitIdle /\ SmartInitIdle
  /\ QueryInitIdle /\ PassInitIdle /\ DiscoverPageInitIdle /\ MatchesInitIdle /\ TraceInitIdle /\ DiscInitIdle /\ ComposeInitIdle /\ MarkInitIdle
  /\ stale = {}
  /\ likeRows \in [Profiles -> {0, 1}]
  /\ remoteMatch \in [Profiles -> {NoMatch, [exists |-> TRUE, messages |-> 0],
                                   [exists |-> TRUE, messages |-> 1]}]
  /\ likeCall = [c \in 1..MaxLikeCalls |-> IdleLike]
  /\ unlikeCall = IdleUnlike
  /\ discovered = {}
  /\ selectedChatMatch \in {TransformedMatch(p) : p \in Profiles} \cup {NoSelection}
UnlikeNext ==
  \/ \E p \in Profiles : UnlikeStart(p)
  \/ \E ok \in BOOLEAN : UnlikeLookup(ok)
  \/ \E ok \in BOOLEAN : UnlikeCascade(ok)
  \/ \E ok \in BOOLEAN : UnlikeDelete(ok)
SpecUnlike == UnlikeInit /\ [][UnlikeNext]_vars

\* mounts, unmounts and identity changes of the two realtime hooks
SubInit ==
  /\ MsgInitIdle /\ PageInitIdle /\ RtInitIdle /\ LikeInitIdle /\ SmartInitIdle
  /\ QueryInitIdle /\ PassInitIdle /\ DiscoverPageInitIdle /\ MatchesInitIdle /\ TraceInitIdle /\ DiscInitIdle /\ ComposeInitIdle /\ MarkInitIdle
  /\ stale = {}
  /\ SubInitIdle
SubNext ==
  \/ \E h \in RtHooks : \E d \in DepsOf(h) : Mount(h, d)
  \/ \E h \in RtHooks : \E d \in DepsOf(h) : ChangeDeps(h, d)
  \/ \E h \in RtHooks : Unmount(h)
  \/ \E h \in RtHooks : RunCleanup(h)
  \/ \E h \in RtHooks : RunEffect(h)
SpecSub == SubInit /\ [][SubNext]_vars

\* the two realtime hooks while the client reports channel statuses
StatusNext ==
  \/ \E h \in RtHooks : \E d \in DepsOf(h) :
       Len(channels) < MaxStatusChannels /\ Mount(h, d)
  \/ \E h \in RtHooks : \E d \in DepsOf(h) :
       Len(channels) < MaxStatusChannels /\ ChangeDeps(h, d)
  \/ \E h \in RtHooks : Unmount(h)
  \/ \E h \in RtHooks : RunCleanup(h)
  \/ \E h \in RtHooks : RunEffect(h)
  \/ \E i \in 1..Len(channels), status \in ChannelStatuses :
       SubscriptionStatus(i, status)
SpecStatus == SubInit /\ [][StatusNext]_vars

\* renders of the three smart hooks while their primary query fails and recovers
SmartInit ==
  /\ MsgInitIdle /\ PageInitIdle /\ RtInitIdle /\ LikeInitIdle /\ SubInitIdle
  /\ QueryInitIdle /\ PassInitIdle /\ DiscoverPageInitIdle /\ MatchesInitIdle /\ TraceInitIdle /\ DiscInitIdle /\ ComposeInitIdle /\ MarkInitIdle
  /\ stale = {}
  /\ SmartInitIdle
SmartNext ==
  \/ \E h \in SmartHooks : PrimaryFails(h)
  \/ \E h \in SmartHooks : PrimarySucceeds(h)
  \/ \E h \in SmartHooks : SmartRender(h)
  \/ \E h \in SmartHooks : SmartRemount(h)
SpecSmart == SmartInit /\ [][SmartNext]_vars

\* the query hooks while their identity parameter comes and goes and their
\* fetches fail and succeed
QueryInit ==
  /\ MsgInitIdle /\ PageInitIdle /\ RtInitIdle /\ LikeInitIdle /\ SubInitIdle
  /\ SmartInitIdle
  /\ stale = {}
  /\ QueryInitIdle /\ PassInitIdle /\ DiscoverPageInitIdle /\ MatchesInitIdle /\ TraceInitIdle /\ DiscInitIdle /\ ComposeInitIdle /\ MarkInitIdle
QueryNext ==
  \/ \E h \in QueryHooks, present \in BOOLEAN : QuerySetIdentity(h, present)
  \/ \E h \in QueryHooks : QueryAutoFetch(h)
  \/ \E h \in QueryHooks : QueryRefetch(h)
  \/ \E h \in QueryHooks, ok \in BOOLEAN, clientError \in BOOLEAN :
       QueryAttempt(h, ok, clientError)
SpecQuery == QueryInit /\ [][QueryNext]_vars

\* PassProfile over the discovery queries of the viewer, cached or not
SampleLists ==
  <<<<Profile("p1"), Profile("p2"), Profile("p3")>>,
    <<Profile("p3"), Profile("p1")>>>>
ViewerDiscoveryKeys == {k \in DiscoveryQueryKeys : k[Len(k)] = Viewer}
CachedListing(k, c) ==
  IF c = 0 THEN NoListing
  ELSE IF k[1] = "discover-profiles-paginated"
       THEN PagedListing(<<[profiles |-> SampleLists[c]]>>)
  ELSE ArrayListing(SampleLists[c])
PassInit ==
  /\ MsgInitIdle /\ PageInitIdle /\ RtInitIdle /\ LikeInitIdle /\ SubInitIdle
  /\ SmartInitIdle /\ QueryInitIdle /\ MarkInitIdle /\ ComposeInitIdle /\ DiscInitIdle /\ TraceInitIdle /\ MatchesInitIdle /\ DiscoverPageInitIdle
  /\ stale = {}
  /\ \E c \in [ViewerDiscoveryKeys -> 0..Len(SampleLists)] :
       listing = [k \in DiscoveryQueryKeys |->
                    IF k \in ViewerDiscoveryKeys THEN CachedListing(k, c[k])
                    ELSE NoListing]
PassNext == \E id \in ListedProfiles : PassProfile(id)
SpecPass == PassInit /\ [][PassNext]_vars

\* ==================================================================== claims
NonDecreasing(s) ==
  \A i \in 1..Len(s) : \A j \in 1..Len(s) :
    i < j => s[i].created_at <= s[j].created_at

\* C1 (SpecInsert): once an insert recipe has run for a message id, through
\* SendMessage.onSuccess or through a realtime INSERT event, in any order and
\* any number of times, the paginated cache and the flat cache each hold
\* exactly one entry with that id.
C1_DedupInvariant ==
  \A d \in delivered :
    /\ Count(SmartData(paginated), d[1]) = 1
    /\ Count(flat.messages, d[1]) = 1

\* a message was written by the optimistic path and echoed by the channel
C1_Witness ==
  \E id \in 1..MaxMsgs :
    /\ <<id, "send">> \in delivered
    /\ <<id, "realtime">> \in delivered
    /\ lastEvent = [type |-> "INSERT", msg |-> Message(id, FALSE)]
    /\ Len(SmartData(paginated)) >= 2

\* C2 (SpecRecipes): when the channel handler processes the event it has just
\* processed (INSERT, UPDATE or DELETE), the paginated cache, its per-page
\* totalLoaded included, and the flat cache are left as the first delivery
\* left them.
C2_DuplicateDelivery ==
  [][(lastEvent # NoEvent /\ lastEvent' = lastEvent)
       => (paginated' = paginated /\ flat' = flat)]_vars

\* C3 (SpecFetch): the messages useMatchMessagesSmart exposes, the loaded pages
\* flattened in page order, are non-decreasing in created_at.
C3_Chronological == NonDecreasing(SmartData(paginated))

\* ---- pagination claims
CeilDiv(n, p) == (n + p - 1) \div p

\* the first k loaded discovery pages follow the "all but the last have more"
\* pattern and hold exactly the candidate rows, in order
PagesCover(k) ==
  /\ \A i \in 1..k : discPages[i].hasMore = (i < k)
  /\ FlatMapProfiles(SubSeq(discPages, 1, k)) = discCandidates

\* C4 as stated (SpecPage): with n >= 1 rows and page size p, pages
\* 0..ceil(n/p)-1 have hasMore true except the last of them, which has hasMore
\* false, and together hold exactly the n rows.
C4_Original ==
  LET n == Len(discCandidates)
      last == CeilDiv(n, discPageSize)
  IN (n >= 1 /\ Len(discPages) >= last) => PagesCover(last)

\* C4 amended (SpecPage): the query loads pages 0..floor(n/p) and no further
\* page; every loaded page before page floor(n/p) has hasMore true, so the
\* next one can be loaded, the last has hasMore false, and the pages in order are exactly the n rows, each once. When p
\* does not divide n the last page is page ceil(n/p)-1; when p divides n it is
\* one further, empty, page.
C4_Boundary ==
  LET n == Len(discCandidates)
      p == discPageSize
      last == (n \div p) + 1
  IN /\ Len(discPages) <= last
     /\ \A i \in 1..Len(discPages) : discPages[i].hasMore = (i < last)
     /\ (n % p # 0) => last = CeilDiv(n, p)
     /\ (n % p = 0) => last = CeilDiv(n, p) + 1
     /\ (n >= 1 /\ Len(discPages) = last) =>
          /\ PagesCover(last)
          /\ (n % p = 0) => discPages[last].profiles = <<>>
          /\ \A i \in 1..n : \A j \in 1..n :
               FlatMapProfiles(discPages)[i] = FlatMapProfiles(discPages)[j]
                 => i = j

\* four rows in pages of two: two full pages and the empty page that ends it
C4_Witness ==
  /\ Len(discCandidates) = 4
  /\ discPageSize = 2
  /\ Len(discPages) = 3
  /\ discPages[2].hasMore
  /\ ~discPages[3].hasMore

\* rows [k*pageSize, (k+1)*pageSize) of an ordered result, k counted from 0
RowsOf(rows, k, pageSize) ==
  LET from == k * pageSize
      cnt == IF Len(rows) - from >= pageSize THEN pageSize
             ELSE IF Len(rows) > from THEN Len(rows) - from ELSE 0
  IN [i \in 1..cnt |-> rows[from + i]]

\* the page follows the rule: it has more exactly when it is full, and then
\* the next page is k+1; otherwise there is no next page
FullPageRule(count, hasMore, nextPage, k, pageSize) ==
  /\ hasMore <=> (count = pageSize)
  /\ nextPage = IF count = pageSize THEN k + 1 ELSE NoPage

\* C5 (SpecPage): page k of the discovery query and of the message query holds
\* exactly rows [k*pageSize, (k+1)*pageSize) of its ordered result (messages
\* newest first, handed back oldest first); hasMore is true and nextPage is
\* k+1 exactly when the page holds pageSize items, otherwise hasMore is false
\* and there is no next page, and no page is loaded after such a page. 25 rows
\* with pageSize 10 give counts 10, 10, 5 and hasMore true, true, false.
C5_OffsetRule ==
  /\ \A i \in 1..Len(discPages) :
       /\ discPages[i].profiles = RowsOf(discCandidates, i - 1, discPageSize)
       /\ FullPageRule(Len(discPages[i].profiles), discPages[i].hasMore,
                       discPages[i].nextPage, i - 1, discPageSize)
       /\ i < Len(discPages) => discPages[i].hasMore
  /\ \A i \in 1..Len(paginated.pages) :
       /\ paginated.pageParams[i] = i - 1
       /\ Reverse(paginated.pages[i].messages) =
            RowsOf(Reverse(msgStore), i - 1, msgPageSize)
       /\ FullPageRule(Len(paginated.pages[i].messages),
                       paginated.pages[i].hasMore,
                       paginated.pages[i].nextPage, i - 1, msgPageSize)
       /\ i < Len(paginated.pages) => paginated.pages[i].hasMore
  /\ (Len(discCandidates) = 25 /\ discPageSize = 10 /\ Len(discPages) >= 3) =>
       /\ Len(discPages) = 3
       /\ <<Len(discPages[1].profiles), Len(discPages[2].profiles),
            Len(discPages[3].profiles)>> = <<10, 10, 5>>
       /\ <<discPages[1].hasMore, discPages[2].hasMore,
            discPages[3].hasMore>> = <<TRUE, TRUE, FALSE>>

\* 25 rows, pageSize 10, both queries have loaded their three pages
C5_Witness ==
  /\ Len(discCandidates) = 25
  /\ discPageSize = 10
  /\ Len(discPages) = 3
  /\ paginated.has
  /\ Len(paginated.pages) = 3
  /\ Len(paginated.pages[3].messages) = 5
  /\ GetNextPageParam(paginated.pages) = NoPage

\* ---- like, unlike, channel and smart hook claims

\* C6 (SpecLike): of two LikeProfile calls made one after the other for the
\* same profile, the first resolving successfully and the second's existence
\* check answered by the remote store, the second resolves successfully
\* without inserting and the remote store holds exactly one like edge from the
\* viewer to the profile.
C6_IdempotentLike ==
  \A c1 \in 1..MaxLikeCalls : \A c2 \in 1..MaxLikeCalls :
    ( /\ c1 < c2
      /\ likeCall[c1].pc = "done"
      /\ likeCall[c2].pc = "done"
      /\ likeCall[c1].profileId = likeCall[c2].profileId
      /\ likeCall[c1].result = "success"
      /\ likeCall[c2].result # "checkError" )
    => /\ likeCall[c2].result = "success"
       /\ ~likeCall[c2].inserted
       /\ likeRows[likeCall[c2].profileId] = 1

\* the first call inserted the edge, the second found it
C6_Witness ==
  /\ likeCall[1].pc = "done" /\ likeCall[1].result = "success"
  /\ likeCall[1].inserted
  /\ likeCall[2].pc = "done" /\ likeCall[2].result = "success"
  /\ likeCall[2].profileId = likeCall[1].profileId
  /\ likeRows[likeCall[1].profileId] = 1

DiscoveryKeys ==
  {k \in CacheKeys : k[1] \in {"discover-profiles", "discover-profiles-paginated",
                               "discover-profiles-optimized"}}

MatchKeys(userId) ==
  {k \in CacheKeys : k[1] = "matches"} \cup
  {<<"match-count", userId>>, <<"unread-message-count", userId>>}

\* C7 (SpecRt): every matches event on the consolidated channel leaves the
\* matches keys, ['match-count', userId] and ['unread-message-count', userId]
\* invalidated; an INSERT also leaves every discovery listing invalidated, and
\* an UPDATE or DELETE changes the staleness of no discovery listing.
C7_InvalidationCompleteness ==
  [][lastRt'.table = "matches" =>
       /\ MatchKeys(rtUser) \subseteq stale'
       /\ (lastRt'.eventType = "INSERT") => DiscoveryKeys \subseteq stale'
       /\ (lastRt'.eventType # "INSERT") =>
            stale' \cap DiscoveryKeys = stale \cap DiscoveryKeys]_vars

\* a matches UPDATE was handled while every discovery listing was fresh
C7_Witness ==
  /\ lastRt = [table |-> "matches", eventType |-> "UPDATE"]
  /\ MatchKeys(rtUser) \subseteq stale
  /\ stale \cap DiscoveryKeys = {}

ActiveIn(chs, h) ==
  Cardinality({i \in 1..Len(chs) : chs[i].hook = h /\ chs[i].active})

\* C8 (SpecSub): over mounts, unmounts and changes of userId / matchId, each
\* realtime hook has at most one channel that is subscribed and not
\* unsubscribed, and when a hook creates a channel every channel it created
\* earlier has been unsubscribed.
C8_SingleSubscription ==
  [][/\ \A h \in RtHooks : ActiveIn(channels', h) <= 1
     /\ Len(channels') > Len(channels) =>
          \A i \in 1..Len(channels) :
            channels'[i].hook = channels'[Len(channels')].hook
              => ~channels'[i].active]_vars

\* the conversation hook has moved to another conversation: its first channel
\* is closed, its second is the open one
C8_Witness ==
  \E i \in 1..Len(channels) : \E j \in 1..Len(channels) :
    /\ i < j
    /\ channels[i].hook = "useMessagesRealtime"
    /\ channels[j].hook = "useMessagesRealtime"
    /\ channels[i].topic # channels[j].topic
    /\ ~channels[i].active
    /\ channels[j].active
    /\ hook["useMessagesRealtime"].ref = j

\* C9 (SpecUnlike): when a match exists UnlikeProfile invokes the cascading
\* delete, and it deletes the like edge whether or not the cascading delete
\* failed; when the like-edge delete succeeds the mutation resolves
\* successfully, the like edge is absent, and the liked-profiles, matches and
\* discovery keys are invalidated.
C9_UnlikeToleratesCascadeFailure ==
  unlikeCall.pc = "done" =>
    /\ unlikeCall.matchExisted => unlikeCall.rpcInvoked
    /\ unlikeCall.deleteIssued
    /\ ~unlikeCall.deleteError =>
         /\ unlikeCall.result = "success"
         /\ likeRows[unlikeCall.profileId] = 0
         /\ {k \in CacheKeys : k[1] \in {"liked-profiles", "matches"}}
              \subseteq stale
         /\ DiscoveryKeys \subseteq stale

\* C10 (SpecSmart): once an instance of a smart hook has rendered with its
\* primary query in error, every result it returns is the fallback query's.
C10_FallbackPermanence ==
  \A h \in SmartHooks : smart[h].seenError => smart[h].returned = "fallback"

\* ---- query and mutation retry claims

C12_NoSilentRetry ==
  \A c \in 1..MaxLikeCalls :
    likeCall[c].writeFailed =>
      /\ likeCall[c].pc = "done"
      /\ likeCall[c].result = "insertError"
      /\ likeCall[c].writes = 1

\* C14 (SpecMerge): whatever the interleaving of page fetches, SendMessage
\* completions and realtime INSERT events, no message id occurs twice in the
\* paginated message cache, in one page or across pages.
C14_CrossPageUniqueness ==
  \A id \in 1..msgIssued : Count(SmartData(paginated), id) <= 1

\* C15 (SpecLike): after LikeProfile succeeds the profile is no longer in the
\* discovered-profiles working set, and every discovery listing (all three
\* variants, every filter and user), every matches key and every
\* liked-profiles key is stale.
C15_LikeInvalidation ==
  \A c \in 1..MaxLikeCalls :
    (likeCall[c].pc = "done" /\ likeCall[c].result = "success") =>
      /\ likeCall[c].profileId \notin discovered
      /\ DiscoveryKeys \subseteq stale
      /\ {k \in CacheKeys : k[1] \in {"matches", "liked-profiles"}}
           \subseteq stale

\* C16 (SpecPass): PassProfile writes nothing to the remote store, and after it
\* the cached list of every discovery query (base, paginated, optimized, every
\* filter) is its list before with the passed profile filtered out: the
\* passed id is absent and the other profiles keep their order.
C16_PassComplete ==
  [][\A id \in ListedProfiles :
       PassProfile(id) =>
         /\ UNCHANGED <<msgStore, likeRows, remoteMatch>>
         /\ \A k \in DiscoveryQueryKeys :
              listing[k].has =>
                /\ listing'[k].has
                /\ ListOf(k, listing'[k]) = Filter(ListOf(k, listing[k]), id)]_vars

\* ---- message recipe claims
FreshCollection(m) ==
  [has |-> TRUE,
   pages |-> <<[messages |-> <<m>>, nextPage |-> NoPage, hasMore |-> FALSE,
                totalLoaded |-> 1]>>,
   pageParams |-> <<0>>]

\* the paginated cache with m appended at the end of its first page and every
\* other page as it was
AppendedToFirstPage(old, new, m) ==
  /\ new.has
  /\ new.pageParams = old.pageParams
  /\ Len(new.pages) = Len(old.pages)
  /\ new.pages[1].messages = Append(old.pages[1].messages, m)
  /\ \A i \in 2..Len(old.pages) : new.pages[i] = old.pages[i]

SendAppends(m) ==
  /\ IF paginated.has /\ Len(paginated.pages) >= 1
     THEN AppendedToFirstPage(paginated, paginated', m)
     ELSE paginated' = FreshCollection(m)
  /\ flat'.has
  /\ flat'.messages = IF flat.has THEN Append(flat.messages, m) ELSE <<m>>

\* C17 as stated (SpecInsert): SendMessage.onSuccess always appends the
\* returned message to the first page (or creates the single-page collection)
\* and to the flat cache, and invalidates the matches list.
C17_Original ==
  [][\A m \in pendingSend :
       SendOnSuccess(m) =>
         /\ SendAppends(m)
         /\ {k \in CacheKeys : k[1] = "matches"} \subseteq stale']_vars

\* C17 amended (SpecInsert): SendMessage.onSuccess leaves a cache that already
\* holds an entry with the message's id as it is; otherwise it appends the
\* message at the end of the first page, adding one to that page's
\* totalLoaded and leaving every other page unchanged, or creates the
\* single-page collection when no page exists; the flat cache likewise; and
\* the matches list is invalidated.
C17_SendRecipe ==
  [][\A m \in pendingSend :
       SendOnSuccess(m) =>
         /\ IF ~paginated.has \/ Len(paginated.pages) = 0
            THEN paginated' = FreshCollection(m)
            ELSE IF Count(FlatMapMessages(paginated.pages), m.id) > 0
            THEN paginated' = paginated
            ELSE /\ AppendedToFirstPage(paginated, paginated', m)
                 /\ paginated'.pages[1].totalLoaded =
                      paginated.pages[1].totalLoaded + 1
                 /\ paginated'.pages[1].hasMore = paginated.pages[1].hasMore
                 /\ paginated'.pages[1].nextPage = paginated.pages[1].nextPage
         /\ IF ~flat.has THEN flat' = [has |-> TRUE, messages |-> <<m>>]
            ELSE IF Count(flat.messages, m.id) > 0 THEN flat' = flat
            ELSE flat' = [has |-> TRUE, messages |-> Append(flat.messages, m)]
         /\ {k \in CacheKeys : k[1] = "matches"} \subseteq stale']_vars

\* a sent message sits at the end of the first of two loaded pages and at the
\* end of the flat cache, its realtime echo not yet handled
C17_Witness ==
  \E id \in 1..MaxMsgs :
    /\ <<id, "send">> \in delivered
    /\ <<id, "realtime">> \notin delivered
    /\ Len(paginated.pages) >= 2
    /\ paginated.pages[1].messages # <<>>
    /\ paginated.pages[1].messages[Len(paginated.pages[1].messages)].id = id
    /\ Count(SmartData(paginated), id) = 1
    /\ flat.has
    /\ flat.messages[Len(flat.messages)].id = id
    /\ <<"matches", "u1">> \in stale

\* the query read by the Matches page for its last-message previews
LastMessagesKey == <<"last-messages-optimized", "matchIds">>

\* C18 (SpecInsert): when SendMessage succeeds, and when the channel handler
\* processes a message INSERT, the cache entry of the last-message previews is
\* marked stale.
C18_PreviewRefresh ==
  [][((\E m \in pendingSend : SendOnSuccess(m)) \/
      (\E payload \in events :
          payload.type = "INSERT" /\ MessagesChannelHandler(payload)))
       => LastMessagesKey \in stale']_vars

HasId(msgs, id) == \E i \in 1..Len(msgs) : msgs[i].id = id

\* C19 (SpecRecipes): when the channel handler processes a DELETE, the entry
\* with the deleted id is removed from the page that holds it and from the
\* flat cache; that page's totalLoaded drops by one and a page that did not
\* hold it keeps its messages and its totalLoaded.
C19_DeleteRecipe ==
  [][\A payload \in events :
       (payload.type = "DELETE" /\ MessagesChannelHandler(payload)) =>
         /\ Len(paginated'.pages) = Len(paginated.pages)
         /\ \A p \in 1..Len(paginated.pages) :
              /\ paginated'.pages[p].messages =
                   Filter(paginated.pages[p].messages, payload.msg.id)
              /\ paginated'.pages[p].totalLoaded =
                   IF HasId(paginated.pages[p].messages, payload.msg.id)
                   THEN paginated.pages[p].totalLoaded - 1
                   ELSE paginated.pages[p].totalLoaded
         /\ flat'.messages = Filter(flat.messages, payload.msg.id)]_vars

Replaced(msgs, m) ==
  [i \in 1..Len(msgs) |-> IF msgs[i].id = m.id THEN m ELSE msgs[i]]

Ids(msgs) == [i \in 1..Len(msgs) |-> msgs[i].id]

\* C20 (SpecUpdate): when the channel handler processes an UPDATE, every
\* cached entry with the updated id is replaced in place by the new row, in
\* every page and in the flat cache; the number, order and ids of the cached
\* messages and every other field of the pages stay as they were; a cache
\* that holds no entry with that id, or does not exist, is left unchanged.
C20_UpdateRecipe ==
  [][\A payload \in events :
       (payload.type = "UPDATE" /\ MessagesChannelHandler(payload)) =>
         /\ paginated'.has = paginated.has
         /\ paginated'.pageParams = paginated.pageParams
         /\ Len(paginated'.pages) = Len(paginated.pages)
         /\ \A p \in 1..Len(paginated.pages) :
              /\ paginated'.pages[p] =
                   [paginated.pages[p] EXCEPT
                      !.messages = Replaced(@, payload.msg)]
              /\ Ids(paginated'.pages[p].messages) =
                   Ids(paginated.pages[p].messages)
         /\ flat'.has = flat.has
         /\ flat'.messages = Replaced(flat.messages, payload.msg)
         /\ Ids(flat'.messages) = Ids(flat.messages)
         /\ ~HasId(FlatMapMessages(paginated.pages), payload.msg.id) =>
              paginated' = paginated
         /\ ~HasId(flat.messages, payload.msg.id) => flat' = flat]_vars

\* an UPDATE has just replaced an entry held by the second cached page and
\* by the flat cache
C20_Witness ==
  /\ lastEvent.type = "UPDATE"
  /\ lastEvent.msg.read
  /\ Len(paginated.pages) >= 2
  /\ \E i \in 1..Len(paginated.pages[2].messages) :
       paginated.pages[2].messages[i] = lastEvent.msg
  /\ \E i \in 1..Len(flat.messages) : flat.messages[i] = lastEvent.msg

\* C21 (SpecFetch): the totalLoaded the paginated message loader hands to the
\* component is the cumulative requested volume, the number of loaded pages
\* times the page size.
C21_TotalLoadedVolume ==
  paginated.has =>
    SmartTotalLoaded(paginated) = Len(paginated.pages) * msgPageSize

\* C22 (SpecMark): when MarkMessagesAsRead succeeds every message of the flat
\* cache is stamped read (one already read stays as it was, nothing is added
\* or removed) and the unread-message-count keys are invalidated.
C22_MarkRead ==
  [][MarkReadOnSuccess =>
       /\ flat'.has = flat.has
       /\ Len(flat'.messages) = Len(flat.messages)
       /\ \A i \in 1..Len(flat.messages) :
            /\ flat'.messages[i].id = flat.messages[i].id
            /\ flat'.messages[i].read
       /\ {k \in CacheKeys : k[1] = "unread-message-count"} \subseteq stale']_vars

\* the subscribed channels of the conversation hook
OpenConversationChannels ==
  {i \in 1..Len(channels) :
     channels[i].hook = "useMessagesRealtime" /\ channels[i].active}

\* once the effects of a render have run, the conversation hook holds one
\* channel, for the selected matchId, when a match is selected and a user is
\* present, and none otherwise; between the cleanup and the effect it holds none
ConversationChannelExact ==
  LET st == hook["useMessagesRealtime"] IN
    /\ st.pc = "idle" =>
         IF st.mounted /\ st.deps[1] # Absent /\ st.deps[2] # Absent
         THEN /\ Cardinality(OpenConversationChannels) = 1
              /\ \A i \in OpenConversationChannels :
                   channels[i].topic = <<"messages", st.deps[1]>>
         ELSE OpenConversationChannels = {}
    /\ st.pc = "effect" => OpenConversationChannels = {}

\* C23 (SpecSub): a message subscription for matchId exists exactly while a
\* conversation is selected and a user is present; when the selection changes
\* or clears, the channel of the previous match is unsubscribed before a
\* channel for the new match is created; with no selection there is none.
C23_ConversationLifecycle ==
  /\ []ConversationChannelExact
  /\ [][(Len(channels') > Len(channels) /\
         channels'[Len(channels')].hook = "useMessagesRealtime")
          => OpenConversationChannels = {}]_vars

\* the selection moved from m1 to m2: the channel of m1 is unsubscribed, the
\* channel of m2 is the one subscribed
C23_Witness ==
  /\ hook["useMessagesRealtime"].pc = "idle"
  /\ hook["useMessagesRealtime"].deps = <<"m2", "u1">>
  /\ \E i \in 1..Len(channels) :
       /\ channels[i].topic = <<"messages", "m1">>
       /\ ~channels[i].active
  /\ \E j \in OpenConversationChannels : channels[j].topic = <<"messages", "m2">>

\* C25 (SpecUnlike): when UnlikeProfile succeeds while the conversation
\* selected on the Matches page is the one with the unliked profile, the
\* selection is cleared; a selection with another profile is left as it is.
C25_UnlikeClearsSelection ==
  [][(unlikeCall.pc = "delete" /\ unlikeCall'.result = "success") =>
       selectedChatMatch' =
         IF selectedChatMatch # NoSelection /\
            selectedChatMatch.userId = unlikeCall.profileId
         THEN NoSelection
         ELSE selectedChatMatch]_vars

\* C24 (SpecCompose): when SendMessage fails with a write error the text the
\* user typed is in the message input afterwards.
C24_InputKeptOnFailure ==
  [][(sendCall.pc = "sending" /\ sendCall'.result = "error") =>
       Trim(chatMessage') = sendCall.text]_vars

\* C26 (SpecRt): every likes event that involves the user, whatever its
\* operation, leaves the three kinds of discovery listing, the matches list
\* and ['liked-profiles', userId] invalidated; a notifications event
\* invalidates ['unread-notification-count', userId] and no other key.
C26_LikeAndNotificationEvents ==
  [][/\ lastRt'.table = "likes" =>
          /\ DiscoveryKeys \subseteq stale'
          /\ {k \in CacheKeys : k[1] = "matches"} \subseteq stale'
          /\ <<"liked-profiles", rtUser>> \in stale'
     /\ lastRt'.table = "notifications" =>
          stale' = stale \cup {<<"unread-notification-count", rtUser>>}]_vars

\* a likes DELETE was handled and no matches event had touched the counters;
\* a notifications key is not invalidated by it
C26_Witness ==
  /\ lastRt = [table |-> "likes", eventType |-> "DELETE"]
  /\ DiscoveryKeys \subseteq stale
  /\ <<"matches", rtUser>> \in stale
  /\ <<"liked-profiles", rtUser>> \in stale
  /\ <<"match-count", rtUser>> \notin stale
  /\ <<"unread-notification-count", rtUser>> \notin stale

\* C27 (SpecRt): the handlers of the per-user channel only run for rows that
\* involve the user: a change of a row of other users is neither received nor
\* processed.
C27_PerUserScoping == lastRt.table # "likes-others"

DirectoryRow(id) == CHOOSE r \in Directory : r.id = id

\* C28 (SpecDiscover): every profile a discovery query returns is not the
\* viewer, is not liked by the viewer in the remote store, has the filtered
\* gender unless the filter is 'everyone', has its age within the inclusive
\* bounds and matches the state and city filters that are set; a viewer
\* without likes gets the candidates with no exclusion.
C28_DiscoveryExclusion ==
  (discCall.pc = "done" /\ discCall.status = "success") =>
    /\ \A id \in discCall.data :
         LET r == DirectoryRow(id) IN
           /\ id # Viewer
           /\ likeRows[id] = 0
           /\ discCall.filters.gender # "everyone"
                => r.gender = discCall.filters.gender
           /\ r.age >= discCall.filters.ageRange[1]
           /\ r.age <= discCall.filters.ageRange[2]
           /\ discCall.filters.stateFilter # ""
                => r.state = discCall.filters.stateFilter
           /\ discCall.filters.cityFilter # ""
                => r.city = discCall.filters.cityFilter
    /\ (\A q \in Profiles : likeRows[q] = 0) =>
         discCall.data = ProfilesSelect(Viewer, discCall.filters, {})

\* the cached query data and the invalidation marks
CacheEntries == <<paginated, flat, discPages, listing, stale>>

\* C29 (SpecStatus): a status change of a channel to CHANNEL_ERROR, TIMED_OUT
\* or CLOSED changes no cache entry, marks nothing stale and creates no
\* channel; a channel is only created by the effect a mount or a change of
\* the hook's identity parameters has scheduled.
C29_DegradedChannelPassive ==
  [][/\ (\E i \in 1..Len(channels) :
           /\ Len(channels') >= i
           /\ channels'[i].status \in DegradedStatuses
           /\ channels[i].status \notin DegradedStatuses)
        => /\ UNCHANGED CacheEntries
           /\ Len(channels') = Len(channels)
           /\ UNCHANGED hook
           /\ \A j \in 1..Len(channels) :
                channels'[j].active = channels[j].active
     /\ Len(channels') > Len(channels)
        => \E h \in RtHooks :
             /\ hook[h].pc = "effect"
             /\ hook'[h].ref = Len(channels')
             /\ channels'[Len(channels')].hook = h
     /\ \A h \in RtHooks :
          (hook[h].pc = "idle" /\ hook'[h].pc # "idle")
            => (hook'[h].mounted # hook[h].mounted \/
                hook'[h].deps # hook[h].deps)]_vars

\* the channel a hook holds timed out and the hook still holds it: nothing
\* replaced it
C29_Witness ==
  \E i \in 1..Len(channels) :
    /\ channels[i].status = "TIMED_OUT"
    /\ channels[i].active
    /\ hook[channels[i].hook].ref = i
    /\ hook[channels[i].hook].pc = "idle"
    /\ ActiveIn(channels, channels[i].hook) = 1

IsPrefix(s, t) ==
  /\ Len(s) <= Len(t)
  /\ \A i \in 1..Len(s) : t[i] = s[i]

\* C30 (SpecRecompute): the success recipe of SendMessage works on the cache
\* as it is when the recipe runs, whatever pages were loaded and events
\* applied since the send started: every page is still there, every page but
\* the first is as it was, and the first page and the flat cache keep their
\* messages in place and gain at most the new message, at the end.
C30_RecipeUsesCurrentCache ==
  [][\A m \in pendingSend :
       TracedSendOnSuccess(m) =>
         /\ paginated.has =>
              /\ paginated'.has
              /\ Len(paginated'.pages) = Len(paginated.pages)
              /\ paginated'.pageParams = paginated.pageParams
              /\ \A p \in 2..Len(paginated.pages) :
                   paginated'.pages[p] = paginated.pages[p]
              /\ Len(paginated.pages) >= 1 =>
                   /\ IsPrefix(paginated.pages[1].messages,
                               paginated'.pages[1].messages)
                   /\ Len(paginated'.pages[1].messages) <=
                        Len(paginated.pages[1].messages) + 1
         /\ Count(SmartData(paginated'), m.id) >= 1
         /\ flat.has => IsPrefix(flat.messages, flat'.messages)
         /\ Count(flat'.messages, m.id) >= 1]_vars

\* a second page was loaded between the start of a send and its recipe: the
\* recipe ran on the two-page cache, and both pages are in the cache with the
\* sent message at the end of the first
C30_Witness ==
  /\ sendTrace.applied
  /\ sendTrace.atStart.has
  /\ Len(sendTrace.atApply.pages) > Len(sendTrace.atStart.pages)
  /\ Len(paginated.pages) = Len(sendTrace.atApply.pages)
  /\ \A p \in 2..Len(paginated.pages) :
       paginated.pages[p] = sendTrace.atApply.pages[p]
  /\ Len(paginated.pages[1].messages) =
       Len(sendTrace.atApply.pages[1].messages) + 1
  /\ <<paginated.pages[1].messages[Len(paginated.pages[1].messages)].id, "send">>
       \in delivered

\* C31 (SpecInsert): the flat message cache is ordered by created_at
\* ascending after any sequence of SendMessage completions and realtime events
\* over a fetched conversation.
C31_FlatOrdered == flat.has => NonDecreasing(flat.messages)

\* C32 (SpecLikeConcurrent): two LikeProfile calls for the same profile whose
\* requests were all answered both resolve successfully and leave exactly one
\* like edge, whatever the interleaving of their checks and inserts.
C32_ConcurrentLikes ==
  \A c \in 1..MaxLikeCalls, d \in 1..MaxLikeCalls :
    ( /\ c # d
      /\ likeCall[c].pc = "done" /\ likeCall[d].pc = "done"
      /\ likeCall[c].profileId = likeCall[d].profileId
      /\ likeCall[c].failureCount = 0 /\ likeCall[d].failureCount = 0 )
    => /\ likeRows[likeCall[c].profileId] = 1
       /\ likeCall[c].result = "success" /\ likeCall[d].result = "success"

\* C33 (SpecMerge): a message the SendMessage success recipe put into the
\* paginated or the flat cache stays in that cache at every later step, unless
\* the step is the handling of a DELETE event for its id.
C33_NoLostOptimisticUpdate ==
  [][\A d \in delivered :
       (d[2] = "send" /\ ~(lastEvent'.type = "DELETE" /\ lastEvent'.msg.id = d[1]))
       => /\ HasId(SmartData(paginated), d[1]) => HasId(SmartData(paginated'), d[1])
          /\ HasId(flat.messages, d[1]) => HasId(flat'.messages, d[1])]_vars

\* C34 (SpecUnlike): when UnlikeProfile resolves with an error the remote
\* store holds the match, the messages and the like edges of the pair that it
\* held when the call was made, and no cache key has been invalidated.
C34_UnlikeAllOrNothing ==
  unlikeCall.result = "error" =>
    /\ remoteMatch[unlikeCall.profileId] = unlikeCall.before.match
    /\ likeRows[unlikeCall.profileId] = unlikeCall.before.likes
    /\ stale = {}

\* C35 (SpecMatchesPage): once the matches list has loaded, a conversation
\* stays selected only if its matchId is among the loaded matches; this
\* includes a list that is now empty.
C35_StaleSelectionCleared ==
  (matches.status = "success" /\ selectedChatMatch # NoSelection)
    => selectedChatMatch.matchId \in matches.data

IdSet(msgs) == {msgs[i].id : i \in 1..Len(msgs)}

CachesAgree ==
  IdSet(SmartData(paginated)) = IdSet(flat.messages)

\* C36 as stated (SpecAgree): whenever both caches hold data and the paginated
\* cache has no further page to load, they contain the same set of message
\* ids.
C36_Original ==
  ( /\ paginated.has /\ flat.has
    /\ Len(paginated.pages) > 0
    /\ ~paginated.pages[Len(paginated.pages)].hasMore )
  => CachesAgree

\* C36 (SpecAgree): when both caches hold data and contain the same set of
\* message ids, as they do when each was populated from the same full fetch,
\* a SendMessage completion or a realtime INSERT or DELETE event applied to
\* both leaves them with the same set of message ids.
C36_CachesAgree ==
  [][(paginated.has /\ flat.has /\ CachesAgree)
       => (paginated'.has /\ flat'.has /\ CachesAgree')]_vars

\* both caches agree after a send recipe and a DELETE event have changed them
C36_Witness ==
  /\ paginated.has /\ flat.has /\ CachesAgree
  /\ lastEvent.type = "DELETE"
  /\ ~HasId(flat.messages, lastEvent.msg.id)
  /\ \E d \in delivered : d[2] = "send" /\ HasId(flat.messages, d[1])
  /\ IdSet(flat.messages) = IdSet(msgStore)

\* C37 (SpecOpenChat): every message that arrives through the realtime
\* channel while a conversation is open is eventually covered by a
\* MarkMessagesAsRead call issued after it was written, unless the
\* conversation is closed first; the user's selecting the match again is not
\* assumed to happen.
C37_IncomingGetRead ==
  \A id \in 1..MaxRecipeMsgs :
    (<<id, "realtime">> \in delivered /\ selectedChatMatch # NoSelection)
      ~> (id \in markIssuedFor \/ selectedChatMatch = NoSelection)

\* C38 (SpecDiscoverPage): once the displayed profile has been passed or
\* liked and is gone from the list, the profile displayed is the one that
\* followed it in the list before the removal, when there was one, and the
\* index is within [0, max(0, length - 1)].
C38_NoProfileSkipped ==
  LET list == PageProfiles(listing) IN
    /\ currentProfileIndex >= 0
    /\ currentProfileIndex <= (IF Len(list) > 0 THEN Len(list) - 1 ELSE 0)
    /\ (discoverAct.removed /\ discoverAct.follower # "undefined")
         => CurrentProfileId(list, currentProfileIndex) = discoverAct.follower

\* C13 (SpecQuery): while the identity parameter of a query hook is absent the
\* hook makes no remote call, schedules no retry and is not in the error
\* state, whatever operation of the hook is used, refetch included.
C13_DisabledState ==
  \A h \in QueryHooks :
    ~query[h].present =>
      /\ query[h].remoteCalls = 0
      /\ query[h].failureCount = 0
      /\ query[h].status # "error"

====
